---------------------------- MODULE Spec2Model ----------------------------
(* Light painter (Light_painter.ino): SD scanning, throughput profiling, *)
(* the menu loop and the playback loop, modelled as a state machine.     *)
EXTENDS Integers, Sequences, FiniteSets, TLC

(* ---------------- program constants ---------------- *)
N_LEDS == 144
OVERHEAD == 150
TableSize == 30
RefreshCeiling == 400
VersionTag == 66

(* ---------------- bounds of the model ---------------- *)
\* directory entries of the card in the device specification
MaxFiles == 2
\* rows (512-byte blocks) of a raw file
MaxRows == 2
\* passes over the frame in one playback (trigger held at end-of-frame)
MaxPasses == 2
\* up/down adjustments of a setting explored in one run
MaxAdjust == 1
\* rescans started from the brightness screen in one run
MaxRescans == 1
\* directory entries of the card in the scan specification
ScanMaxFiles == 32
\* largest garbage value explored for the uninitialised index i of completeScan
MaxUbIndex == 0
\* largest slot whose raw name the uninitialised outfile may happen to hold
MaxUbSlot == 1
\* scans run one after the other in the scan specification
MaxApiScans == 2
\* largest index looked up by a call of getFileName in the scan specification
MaxLookup == 1
\* block reads that fail in one run
MaxReadFaults == 1

Buttons == {"up", "dn", "trig"}
Latencies == {0, 200000}
Strides == {1, 9}

(* ---------------- integer helpers ---------------- *)
U8(x) == x % 256
U16(x) == x % 65536

\* C integer division: truncation toward zero
TruncDiv(a, b) ==
  IF a >= 0 THEN a \div b ELSE -((-a) \div b)

\* Arduino map(), long arithmetic
map(x, in_min, in_max, out_min, out_max) ==
  TruncDiv((x - in_min) * (out_max - out_min), in_max - in_min) + out_min

(* ---------------- the card: directory entries ---------------- *)
\* A name is a sequence of characters; a stem is kept as one token.
BmpName(k) == <<"f", ToString(k), ".", "b", "m", "p">>
TxtName(k) == <<"n", ToString(k), ".", "t", "x", "t">>
\* a text file whose stem holds the letters bmp
StemName(k) == <<"b", "m", "p", ToString(k), ".", "t", "x", "t">>

\* a bitmap whose stem holds the letters bmp
PrefixedName(k) == <<"b", "m", "p", ToString(k), ".", "b", "m", "p">>

\* the name ends with the source suffix .bmp
EndsBmp(name) ==
  /\ Len(name) >= 4
  /\ SubSeq(name, Len(name) - 3, Len(name)) = <<".", "b", "m", "p">>

\* strstr(name, "bmp") > 0 : "bmp" occurs somewhere in the name
HasBmp(name) ==
  \E p \in 1..Len(name) :
    /\ p + 2 <= Len(name)
    /\ name[p] = "b" /\ name[p + 1] = "m" /\ name[p + 2] = "p"

\* the entry kinds a directory pattern places at position k
KindAt(pattern, k) ==
  IF pattern = "bmp" THEN "bmp"
  ELSE IF pattern = "stems" THEN (IF k % 2 = 1 THEN "stem" ELSE "bmp")
  ELSE IF pattern = "prefixed" THEN "prefixed"
  ELSE CASE k % 4 = 1 -> "bmp"
         [] k % 4 = 2 -> "hidden"
         [] k % 4 = 3 -> "sub"
         [] OTHER     -> "txt"

EntryOf(pattern, base, stride, k) ==
  LET kind == KindAt(pattern, k) IN
  [ name     |-> IF kind = "txt" THEN TxtName(k)
                 ELSE IF kind = "stem" THEN StemName(k)
                 ELSE IF kind = "prefixed" THEN PrefixedName(k) ELSE BmpName(k),
    sub      |-> kind = "sub",
    hidden   |-> kind = "hidden",
    dirIndex |-> base + stride * (k - 1),
    rows     |-> 1 + (k % MaxRows) ]

DirOf(pattern, base, stride, n) ==
  [k \in 1..n |-> EntryOf(pattern, base, stride, k)]

\* lines 477-479 / 536-538: the entry is indexed
Eligible(e) == ~e.sub /\ ~e.hidden /\ HasBmp(e.name)


(* ---------------- program state ---------------- *)
VARIABLES
  pc,            \* position of the single thread of control
  after,         \* caller of the running scan/profile: "setup", "bright", "api"
  dir,           \* the card's directory, in enumeration order
  raw,           \* raw (Frame) files on the card, by slot; slot 0: garbage name
  layout,        \* what the build placed behind fileIndex[29]
  fileIndex, nFrames, frame, selected, menuState,
  maxLPS, firstBlock, nBlocks,
  sdBuf,         \* the single working buffer
  leds,          \* what the strip latched at the last show()
  SetBrightness, Speed, Delay,
  eeprom,
  btn,           \* buttons currently pressed (read LOW)
  buttonActive, longPress,   \* statics of getInput
  scanPos, scanKind, ubI, ubOut,
  ci,            \* loop variable i of checkSpeed
  block, stopFlag, linesPerSec,
  shown,         \* history: buffers transmitted by the current playback
  passes,        \* history: frame passes started by the current playback
  ackSeen,       \* history: line 888 saw a button pressed in the last playback
  armed,         \* history: preload() ran since the last playback ended
  profiled,      \* history: the rates checkSpeed() derived in its current run
  adj,           \* history: setting adjustments made
  oob,           \* history: a write to fileIndex[k], k >= 30, happened
  scans,         \* history: scans started after setup()
  lastScan, prevScan,  \* history: results of the last two finished scans
  lastCall,      \* history: the last call of a function examined on its own
  diag,          \* the two lines error() left on the display, <<>> if none
  freeBlocks,    \* the card: the largest run of free blocks
  tables,        \* the build: which gamma.h was compiled in
  readFaults,    \* history: the block reads that have failed
  framesAt       \* history: the brightness setting the frames on the card were made at

vars == << pc, after, dir, raw, layout, fileIndex, nFrames, frame, selected,
           menuState, maxLPS, firstBlock, nBlocks, sdBuf, leds, SetBrightness,
           Speed, Delay, eeprom, btn, buttonActive, longPress, scanPos,
           scanKind, ubI, ubOut, ci, block, stopFlag, linesPerSec, shown,
           passes, ackSeen, armed, profiled, adj, oob, scans, lastScan,
           prevScan, lastCall, diag, freeBlocks, tables, readFaults,
          framesAt >>

(* ---------------- buffer contents ---------------- *)
Off == [kind |-> "off", f |-> 0, r |-> 0]
Junk == [kind |-> "junk", f |-> 0, r |-> 0]
Row(s, r) == [kind |-> "row", f |-> s, r |-> r]

\* faulty variant of Memset0: the buffer is left as it is
Memset0_keep(buf) == buf

\* memset(sdBuf, 0, N_LEDS * 3): the LED part is zeroed, the rest of the block stays
Memset0(buf) == [buf EXCEPT !.led = Off]
WholeBlock(c) == [led |-> c, pad |-> c]

(* ---------------- the card: raw files ---------------- *)
NoRaw == [state |-> "none", rows |-> 0]
OkRaw(n) == [state |-> "ok", rows |-> n]
FragRaw(n) == [state |-> "frag", rows |-> n]

\* first block of the extent of the raw file of slot s
First(s) == 100 * (s + 1)

\* sd.card()->readBlock(addr, sdBuf) when the card delivers the block
BlockAt(rw, addr) ==
  LET hit == {s \in DOMAIN rw : rw[s].state = "ok"
                                /\ First(s) <= addr /\ addr < First(s) + rw[s].rows}
  IN IF hit = {} THEN WholeBlock(Junk)
     ELSE LET s == CHOOSE x \in hit : TRUE IN WholeBlock(Row(s, addr - First(s)))

\* what a failed block read leaves in the buffer
Failed == [kind |-> "failed", f |-> 0, r |-> 0]

\* sd.card()->readBlock(addr, sdBuf), which returns false when the read fails;
\* lines 832, 880 and 1083 do not look at the value
readBlock(rw, addr, delivered) ==
  IF delivered THEN BlockAt(rw, addr) ELSE WholeBlock(Failed)

\* the outcomes of the next block read
ReadOutcomes == IF readFaults < MaxReadFaults THEN {TRUE, FALSE} ELSE {TRUE}
Counted(delivered) == IF delivered THEN readFaults ELSE readFaults + 1

\* tmp.open(sd.vwd(), index, O_RDONLY): the slot at a directory position, 0 if none
Resolve(d, ix) ==
  LET hit == {s \in 1..Len(d) : d[s].dirIndex = ix}
  IN IF hit = {} THEN 0 ELSE CHOOSE s \in hit : TRUE

\* the least position at which pat occurs in name, 0 if it does not: strstr
FirstAt(name, pat) ==
  LET at == {p \in 1..Len(name) :
               /\ p + Len(pat) - 1 <= Len(name)
               /\ SubSeq(name, p, p + Len(pat) - 1) = pat}
  IN IF at = {} THEN 0 ELSE CHOOSE p \in at : \A q \in at : p <= q

\* what a name buffer holds that no valid name was written to
Garbage == <<"?">>
NoCall == [fn |-> "none", index |-> 0, ext |-> 0, src |-> 0, out |-> <<>>]

\* lines 596-599: strcpy(strstr(fileName, "bmp"), "raw"); without an occurrence
\* the copy goes through a null pointer
RawNameOf(name) ==
  LET p == FirstAt(name, <<"b", "m", "p">>)
  IN IF p = 0 THEN Garbage ELSE SubSeq(name, 1, p - 1) \o <<"r", "a", "w">>

\* lines 601-604: strcpy(strstr(fileName, ".bmp"), "")
DisplayNameOf(name) ==
  LET p == FirstAt(name, <<".", "b", "m", "p">>)
  IN IF p = 0 THEN Garbage ELSE SubSeq(name, 1, p - 1)

\* getFileName(fileName, index, ext), lines 587-605: the string left in fileName
getFileNameExt(d, fi, index, ext) ==
  LET s == IF index < TableSize THEN Resolve(d, fi[index]) ELSE 0
  IN IF s = 0 THEN Garbage
     ELSE CASE ext = 1 -> RawNameOf(d[s].name)
            [] ext = 2 -> DisplayNameOf(d[s].name)
            [] OTHER   -> d[s].name

\* getFileName(outfile, index, 1) followed by open(outfile): the raw file named,
\* kept under the first slot whose source name gives that raw name. A read
\* behind the table, a position that opens no file, or a name without "bmp"
\* leaves a garbage name in outfile: slot 0.
getFileName(d, fi, index) ==
  LET n == getFileNameExt(d, fi, index, 1)
      hit == {t \in 1..Len(d) : HasBmp(d[t].name) /\ RawNameOf(d[t].name) = n}
  IN IF n = Garbage \/ hit = {} THEN 0
     ELSE CHOOSE t \in hit : \A u \in hit : t <= u

(* ---------------- EEPROM ---------------- *)
\* an EEPROM never written reads 255 in every cell
BlankEeprom == [a \in 0..3 |-> 255]
SavedEeprom == [a \in 0..3 |-> IF a = 0 THEN VersionTag ELSE IF a = 3 THEN 1 ELSE 255]

\* loadConfig(): the three settings after the load
loadConfig(ee, dflt) ==
  IF ee[0] = VersionTag THEN <<ee[1], ee[2], ee[3]>> ELSE dflt

\* saveConfig()
saveConfig(ee, b, s, d) ==
  [a \in 0..3 |-> CASE a = 0 -> VersionTag [] a = 1 -> b [] a = 2 -> s [] OTHER -> d]

\* saveBrightness()
saveBrightness(ee, b) ==
  [ee EXCEPT ![0] = VersionTag, ![1] = b]

(* ---------------- throughput profiler ---------------- *)
\* benchmark(): the worst of the observed latencies (lats: one per block read)
RECURSIVE benchmarkFrom(_, _)
benchmarkFrom(lats, maxTime) ==
  IF lats = <<>> THEN maxTime
  ELSE benchmarkFrom(Tail(lats), IF Head(lats) > maxTime THEN Head(lats) ELSE maxTime)

benchmark(lats) == benchmarkFrom(lats, 0)

\* lines 564-566: lines per second for a worst-case block read time
LinesPerSecFor(t) ==
  U16(1000000 \div (((t * 21) \div 20) + (N_LEDS * 30) + OVERHEAD))

\* line 567
updateMaxLPS(m, n) == IF n > m THEN n ELSE m

\* faulty variant of clampLPS: the Timer1 period of the ceiling, (F_CPU / 64) / 400
\* (line 863), is stored in place of the rate
clampLPS_period(m) == (16000000 \div 64) \div RefreshCeiling

\* lines 184 and 357
clampLPS(m) == IF m > RefreshCeiling THEN RefreshCeiling ELSE m

(* ---------------- error() ---------------- *)
\* error(), lines 1091-1097: both parts are printed and the program hangs
error(ptr1, ptr2) ==
  /\ pc' = "error"
  /\ diag' = <<ptr1, ptr2>>

\* the messages of the failures of a conversion once the output is being made:
\* lines 967, 1004 and 1032
StoreDiags ==
  { <<":( error", "creating file">>,
    <<":( Read error", "during raw conv.">>,
    <<":( Write error", "during raw conv.">> }

(* ---------------- SD scanning ---------------- *)
ZeroTable == [k \in 0..(TableSize - 1) |-> 0]
NoScan == [kind |-> "none", n |-> 0, fi |-> ZeroTable]

\* what a write to fileIndex[k], k >= 30, lands on: the build's memory layout.
\* "decl": the globals follow in declaration order (lines 89-93);
\* "rev": reverse order, pinMask and sdBuf follow; "apart": nothing modelled.
ClobberTarget(lay, k) ==
  IF lay = "decl"
  THEN CASE k = TableSize     -> "selected"
         [] k = TableSize + 1 -> "menuState"
         [] k = TableSize + 2 -> "nFrames"
         [] k = TableSize + 3 -> "frame"
         [] OTHER             -> "other"
  ELSE IF lay = "rev" /\ k > TableSize THEN "sdBuf" ELSE "other"

\* a 24-bit uncompressed bitmap: what bmpProcess accepts (lines 943-947);
\* the files of the card that hold one are those named *.bmp
IsBitmap(e) == ~e.sub /\ EndsBmp(e.name)

\* names the uninitialised outfile[18] of completeScan may hold
UbOuts(d) == {0} \cup {t \in 1..Len(d) : t <= MaxUbSlot /\ HasBmp(d[t].name)}

\* completeScan(), lines 474-475 (the caller continues at pc = "scan")
BeginComplete ==
  /\ nFrames' = 0
  /\ scanPos' = 1
  /\ scanKind' = "complete"
  /\ \E i \in 0..MaxUbIndex : ubI' = i
  /\ \E o \in UbOuts(dir) : ubOut' = o
  /\ pc' = "scan"

\* shortScan(), line 534: nFrames is not set back
BeginShort ==
  /\ scanPos' = 1
  /\ scanKind' = "short"
  /\ pc' = "scan"
  /\ UNCHANGED <<nFrames, ubI, ubOut>>

\* One pass of the while loop of completeScan (476-497) or shortScan (535-544).
\* bmpProcess (905-1057) is called with infile = the name getFileName(infile, i, 0)
\* finds for the uninitialised i, and with the uninitialised outfile.
ScanStep ==
  /\ pc = "scan"
  /\ scanPos <= Len(dir)
  /\ scanPos' = scanPos + 1
  /\ LET e == dir[scanPos]
         v == U8(e.dirIndex)
         k == nFrames
         tgt == IF k < TableSize THEN "table" ELSE ClobberTarget(layout, k)
         fi1 == IF tgt = "table" THEN [fileIndex EXCEPT ![k] = v] ELSE fileIndex
         nF1 == IF tgt = "nFrames" THEN v ELSE nFrames
         buf1 == IF tgt = "sdBuf" THEN [sdBuf EXCEPT !.led = Junk] ELSE sdBuf
         r == IF ubI < TableSize THEN Resolve(dir, fi1[ubI]) ELSE 0
     IN
     IF ~Eligible(e)
     THEN UNCHANGED <<pc, raw, fileIndex, nFrames, frame, selected, menuState,
                      firstBlock, nBlocks, sdBuf, oob, diag, framesAt>>
     ELSE
       /\ fileIndex' = fi1
       /\ oob' = (oob \/ tgt # "table")
       /\ frame' = IF tgt = "frame" THEN v ELSE frame
       /\ selected' = IF tgt = "selected" THEN v ELSE selected
       /\ menuState' = IF tgt = "menuState" THEN v ELSE menuState
       /\ IF scanKind = "short"
          THEN /\ nFrames' = U8(nF1 + 1)
               /\ sdBuf' = buf1
               /\ UNCHANGED <<pc, raw, firstBlock, nBlocks, diag, framesAt>>
          ELSE \E opened \in BOOLEAN, stored \in BOOLEAN :
                 LET src == IF r # 0 THEN r ELSE scanPos
                     h == dir[src].rows
                 IN
                 IF (r = 0 /\ ~opened) \/ ~IsBitmap(dir[src])
                 THEN \* lines 939 and 1052
                      /\ IF r = 0 /\ ~opened
                         THEN error("Failed :(", "can't open file")
                         ELSE error(":( BMP format", " not recognized.")
                      /\ nFrames' = nF1
                      /\ sdBuf' = buf1
                      /\ UNCHANGED <<raw, firstBlock, nBlocks, framesAt>>
                 ELSE IF ~stored
                 THEN \* remove() done, createContiguous or a block transfer failed
                      /\ \E msg \in StoreDiags : error(msg[1], msg[2])
                      /\ nFrames' = nF1
                      /\ raw' = [raw EXCEPT ![ubOut] = NoRaw]
                      /\ sdBuf' = WholeBlock(Junk)
                      /\ UNCHANGED <<firstBlock, nBlocks, framesAt>>
                 ELSE /\ pc' = "scan"
                      /\ UNCHANGED diag
                      /\ nFrames' = U8(nF1 + 1)
                      /\ raw' = [raw EXCEPT ![ubOut] = OkRaw(h)]
                      \* line 487: b = minBrightness, from SetBrightness (line 469)
                      /\ framesAt' = SetBrightness
                      /\ firstBlock' = First(ubOut)
                      /\ nBlocks' = h
                      /\ sdBuf' = WholeBlock(Row(ubOut, h - 1))
  /\ UNCHANGED <<after, dir, layout, maxLPS, leds, SetBrightness, Speed, Delay,
                 eeprom, btn, buttonActive, longPress, scanKind, ubI, ubOut, ci,
                 block, stopFlag, linesPerSec, shown, passes, ackSeen, armed,
                 profiled, adj, scans, lastScan, prevScan>>
  /\ UNCHANGED lastCall
  /\ UNCHANGED <<freeBlocks, tables>>
  /\ UNCHANGED readFaults

\* the directory is exhausted: the scan returns to its caller
ScanDone ==
  /\ pc = "scan"
  /\ scanPos > Len(dir)
  /\ IF after = "api"
     THEN /\ pc' = "idle"
          /\ prevScan' = lastScan
          /\ lastScan' = [kind |-> scanKind, n |-> nFrames, fi |-> fileIndex]
     ELSE /\ pc' = "checkSpeed"
          /\ UNCHANGED <<lastScan, prevScan>>
  /\ profiled' = <<>>
  /\ scanPos' = 1 /\ scanKind' = "none" /\ ubI' = 0 /\ ubOut' = 0
  /\ UNCHANGED <<after, dir, raw, layout, fileIndex, nFrames, frame, selected,
                 menuState, maxLPS, firstBlock, nBlocks, sdBuf, leds,
                 SetBrightness, Speed, Delay, eeprom, btn, buttonActive,
                 longPress, ci, block, stopFlag, linesPerSec, shown, passes,
                 ackSeen, armed, adj, oob, scans>>
  /\ UNCHANGED lastCall
  /\ UNCHANGED <<freeBlocks, tables>>
  /\ UNCHANGED framesAt
  /\ UNCHANGED readFaults
  /\ UNCHANGED diag

(* ---------------- checkSpeed and preload ---------------- *)
\* faulty variant of preload: firstBlock and nBlocks are left as they were
preload_keep(d, rw, fi, fr, delivered) ==
  LET s == getFileName(d, fi, fr)
  IN [ ok         |-> rw[s].state = "ok",
       firstBlock |-> firstBlock,
       nBlocks    |-> nBlocks,
       buf        |-> readBlock(rw, First(s), delivered) ]

\* preload(), lines 810-835
preload(d, rw, fi, fr, delivered) ==
  LET s == getFileName(d, fi, fr)
  IN [ ok         |-> rw[s].state = "ok",
       firstBlock |-> First(s),
       nBlocks    |-> rw[s].rows,
       buf        |-> readBlock(rw, First(s), delivered) ]

\* preload(), lines 817-822: the failure of the open or of the contiguity test
preloadError(d, rw, fi, fr) ==
  IF rw[getFileName(d, fi, fr)].state = "none"
  THEN error("Can't open file", "Try rescaning?")
  ELSE error(":( Raw file error", "Try rescaning?")

\* faulty variant of CheckSpeedStep: a frame that cannot be used is passed over
CheckSpeedStep_skip ==
  /\ pc = "checkSpeed"
  /\ ci < nFrames
  /\ LET s == getFileName(dir, fileIndex, ci)
     IN IF raw[s].state # "ok"
        THEN /\ ci' = U8(ci + 1)
             /\ UNCHANGED <<pc, diag, maxLPS, firstBlock, nBlocks, sdBuf, profiled,
                            readFaults>>
        ELSE \E lats \in [1..raw[s].rows -> Latencies], delivered \in ReadOutcomes :
               /\ pc' = "checkSpeed"
               /\ UNCHANGED diag
               /\ ci' = U8(ci + 1)
               /\ firstBlock' = First(s)
               /\ nBlocks' = raw[s].rows
               /\ sdBuf' = readBlock(raw, First(s) + raw[s].rows - 1, delivered)
               /\ readFaults' = Counted(delivered)
               /\ maxLPS' = updateMaxLPS(maxLPS, LinesPerSecFor(benchmark(lats)))
               /\ profiled' = Append(profiled, LinesPerSecFor(benchmark(lats)))
  /\ UNCHANGED <<after, dir, raw, layout, fileIndex, nFrames, frame, selected,
                 menuState, leds, SetBrightness, Speed, Delay, eeprom, btn,
                 buttonActive, longPress, scanPos, scanKind, ubI, ubOut, block,
                 stopFlag, linesPerSec, shown, passes, ackSeen, armed, adj, oob,
                 scans, lastScan, prevScan>>
  /\ UNCHANGED lastCall
  /\ UNCHANGED <<freeBlocks, tables>>
  /\ UNCHANGED framesAt

\* one pass of the for loop of checkSpeed(), lines 558-571
CheckSpeedStep ==
  /\ pc = "checkSpeed"
  /\ ci < nFrames
  /\ LET s == getFileName(dir, fileIndex, ci)
     IN IF raw[s].state # "ok"
        THEN /\ IF raw[s].state = "none"
                THEN error("Error :(", "can't open raw file")
                ELSE error("raw file error", "re-scan needed!")
             /\ UNCHANGED <<ci, maxLPS, firstBlock, nBlocks, sdBuf, profiled,
                            readFaults>>
        ELSE \E lats \in [1..raw[s].rows -> Latencies], delivered \in ReadOutcomes :
               /\ pc' = "checkSpeed"
               /\ UNCHANGED diag
               /\ ci' = U8(ci + 1)
               /\ firstBlock' = First(s)
               /\ nBlocks' = raw[s].rows
               /\ sdBuf' = readBlock(raw, First(s) + raw[s].rows - 1, delivered)
               /\ readFaults' = Counted(delivered)
               /\ maxLPS' = updateMaxLPS(maxLPS, LinesPerSecFor(benchmark(lats)))
               /\ profiled' = Append(profiled, LinesPerSecFor(benchmark(lats)))
  /\ UNCHANGED <<after, dir, raw, layout, fileIndex, nFrames, frame, selected,
                 menuState, leds, SetBrightness, Speed, Delay, eeprom, btn,
                 buttonActive, longPress, scanPos, scanKind, ubI, ubOut, block,
                 stopFlag, linesPerSec, shown, passes, ackSeen, armed, adj, oob,
                 scans, lastScan, prevScan>>
  /\ UNCHANGED lastCall
  /\ UNCHANGED <<freeBlocks, tables>>
  /\ UNCHANGED framesAt

\* checkSpeed() returned: line 184 (setup), line 357 (brightness screen)
CheckSpeedDone ==
  /\ pc = "checkSpeed"
  /\ ci >= nFrames
  /\ maxLPS' = clampLPS(maxLPS)
  /\ pc' = "preload"
  /\ ci' = 0
  /\ UNCHANGED <<after, dir, raw, layout, fileIndex, nFrames, frame, selected,
                 menuState, firstBlock, nBlocks, sdBuf, leds, SetBrightness,
                 Speed, Delay, eeprom, btn, buttonActive, longPress, scanPos,
                 scanKind, ubI, ubOut, block, stopFlag, linesPerSec, shown,
                 passes, ackSeen, armed, profiled, adj, oob, scans, lastScan,
                 prevScan>>
  /\ UNCHANGED lastCall
  /\ UNCHANGED <<freeBlocks, tables>>
  /\ UNCHANGED framesAt
  /\ UNCHANGED readFaults
  /\ UNCHANGED diag

\* line 202 (setup), lines 358-362 (brightness screen): preload(), then the menu
Preload ==
  /\ pc = "preload"
  /\ \E delivered \in ReadOutcomes :
     LET p == preload(dir, raw, fileIndex, frame, delivered)
     IN IF ~p.ok
        THEN /\ delivered
             /\ preloadError(dir, raw, fileIndex, frame)
             /\ UNCHANGED <<firstBlock, nBlocks, sdBuf, eeprom, menuState,
                            selected, armed, readFaults>>
        ELSE /\ pc' = "menu"
             /\ readFaults' = Counted(delivered)
             /\ UNCHANGED diag
             /\ firstBlock' = p.firstBlock
             /\ nBlocks' = p.nBlocks
             /\ sdBuf' = p.buf
             /\ armed' = TRUE
             /\ IF after = "bright"
                THEN /\ eeprom' = saveBrightness(eeprom, SetBrightness)
                     /\ menuState' = 0
                     /\ selected' = 1
                ELSE UNCHANGED <<eeprom, menuState, selected>>
  /\ after' = "setup"
  /\ profiled' = <<>>
  /\ UNCHANGED <<dir, raw, layout, fileIndex, nFrames, frame, maxLPS, leds,
                 SetBrightness, Speed, Delay, btn, buttonActive, longPress,
                 scanPos, scanKind, ubI, ubOut, ci, block, stopFlag,
                 linesPerSec, shown, passes, ackSeen, adj, oob, scans, lastScan,
                 prevScan>>
  /\ UNCHANGED lastCall
  /\ UNCHANGED <<freeBlocks, tables>>
  /\ UNCHANGED framesAt

(* ---------------- menu loop ---------------- *)
\* getInput(), lines 760-763: the code of the buttons found pressed
ButtonCode(b) ==
  IF "up" \in b THEN 1 ELSE IF "dn" \in b THEN 2 ELSE 3

\* what the uint8_t a of line 753 can hold when no assignment reached it: a
\* value below the codes, the trigger code, a long-press code and a value above
\* them (1 and 2 act as the presses of up and down do)
Uninitialized == {0, 3, 4, 255}

\* lines 761-763: a after the three reads, b the buttons they find pressed; with
\* none pressed, released since the wait loop of line 760 ended, a is never
\* assigned
ReadCodes(b) == IF b = {} THEN Uninitialized ELSE {ButtonCode(b)}

\* getInput(), lines 766-800. a0: a after the reads of lines 761-763; held: up or
\* down still pressed after delay(300); elapsed: more than 1000 ms since pressTimer.
getInput(ms, sel, a0, held, elapsed, ba, lp) ==
  LET a == a0 IN
  IF ms > 4 /\ ms < 8 /\ a < 3
  THEN IF held
       THEN LET lp1 == IF ba /\ elapsed /\ ~lp THEN TRUE ELSE lp
            IN [a |-> IF lp1 THEN U8(a + 3) ELSE a, buttonActive |-> TRUE,
                longPress |-> lp1, wait |-> FALSE]
       ELSE [a |-> a, buttonActive |-> FALSE,
             longPress |-> IF ba THEN FALSE ELSE lp, wait |-> FALSE]
  ELSE IF ms = 0 /\ a = 3 /\ sel = 0
  THEN [a |-> a, buttonActive |-> ba, longPress |-> lp, wait |-> FALSE]
  ELSE [a |-> a, buttonActive |-> ba, longPress |-> lp, wait |-> TRUE]

\* lines 343-346, 367-370, 378-381: one adjustment of a setting
Adjust(a, x) ==
  LET x1 == IF a = 1 /\ x # 255 THEN x + 1 ELSE x
      x2 == IF a = 4 /\ x1 < 250 THEN x1 + 5 ELSE x1
      x3 == IF a = 2 /\ x2 # 0 THEN x2 - 1 ELSE x2
  IN IF a = 5 /\ x3 > 5 THEN x3 - 5 ELSE x3

\* lines 390-394 and 398-402
FrameUp(fr, nF) == IF fr = 0 THEN U8(nF - 1) ELSE fr - 1
\* lines 407-411 and 416-420
FrameDown(fr, nF) == IF fr = nF - 1 THEN 0 ELSE U8(fr + 1)

\* faulty variant of MenuNext: on the second page a trigger press on the
\* brightness item opens the speed screen
MenuNext_page(ms, sel, a) ==
  CASE ms = 0 ->
         IF sel = 1 /\ a = 2 THEN <<0, 0>>
         ELSE IF sel = 1 /\ a = 3 THEN <<1, 2>>
         ELSE IF sel = 0 /\ a = 1 THEN <<0, 1>>
         ELSE <<ms, sel>>
    [] ms = 1 ->
         IF a = 2 /\ sel = 2 THEN <<1, 3>>
         ELSE IF a = 2 /\ sel = 3 THEN <<2, 4>>
         ELSE IF a = 1 /\ sel = 3 THEN <<1, 2>>
         ELSE IF a = 3 /\ sel = 2 THEN <<8, 0>>
         ELSE IF a = 3 /\ sel = 3 THEN <<5, sel>>
         ELSE <<ms, sel>>
    [] ms = 2 ->
         IF a = 2 /\ sel = 3 THEN <<2, 4>>
         ELSE IF a = 2 /\ sel = 4 THEN <<3, 5>>
         ELSE IF a = 1 /\ sel = 4 THEN <<2, 3>>
         ELSE IF a = 1 /\ sel = 3 THEN <<1, 2>>
         ELSE IF a = 3 /\ sel = 3 THEN <<6, sel>>
         ELSE IF a = 3 /\ sel = 4 THEN <<6, sel>>
         ELSE <<ms, sel>>
    [] ms = 3 ->
         IF a = 2 /\ sel = 4 THEN <<3, 5>>
         ELSE IF a = 2 /\ sel = 5 THEN <<4, 6>>
         ELSE IF a = 1 /\ sel = 5 THEN <<3, 4>>
         ELSE IF a = 1 /\ sel = 4 THEN <<2, 3>>
         ELSE IF a = 3 /\ sel = 4 THEN <<6, sel>>
         ELSE IF a = 3 /\ sel = 5 THEN <<7, sel>>
         ELSE <<ms, sel>>
    [] ms = 4 ->
         IF a = 2 /\ sel = 5 THEN <<4, 6>>
         ELSE IF a = 1 /\ sel = 6 THEN <<4, 5>>
         ELSE IF a = 1 /\ sel = 5 THEN <<3, 4>>
         ELSE IF a = 3 /\ sel = 5 THEN <<7, sel>>
         ELSE IF a = 3 /\ sel = 6 THEN <<0, 1>>
         ELSE <<ms, sel>>
    [] ms = 6 \/ ms = 7 ->
         IF a = 3 THEN <<0, 1>> ELSE <<ms, sel>>
    [] ms = 8 ->
         IF a = 1 THEN <<8, 0>>
         ELSE IF a = 2 THEN <<8, 1>>
         ELSE IF a = 3 THEN <<0, 0>>
         ELSE <<ms, sel>>
    [] OTHER -> <<ms, sel>>

\* the switch of loop(), lines 216-430: menuState and selected after the input
MenuNext(ms, sel, a) ==
  CASE ms = 0 ->
         IF sel = 1 /\ a = 2 THEN <<0, 0>>
         ELSE IF sel = 1 /\ a = 3 THEN <<1, 2>>
         ELSE IF sel = 0 /\ a = 1 THEN <<0, 1>>
         ELSE <<ms, sel>>
    [] ms = 1 ->
         IF a = 2 /\ sel = 2 THEN <<1, 3>>
         ELSE IF a = 2 /\ sel = 3 THEN <<2, 4>>
         ELSE IF a = 1 /\ sel = 3 THEN <<1, 2>>
         ELSE IF a = 3 /\ sel = 2 THEN <<8, 0>>
         ELSE IF a = 3 /\ sel = 3 THEN <<5, sel>>
         ELSE <<ms, sel>>
    [] ms = 2 ->
         IF a = 2 /\ sel = 3 THEN <<2, 4>>
         ELSE IF a = 2 /\ sel = 4 THEN <<3, 5>>
         ELSE IF a = 1 /\ sel = 4 THEN <<2, 3>>
         ELSE IF a = 1 /\ sel = 3 THEN <<1, 2>>
         ELSE IF a = 3 /\ sel = 3 THEN <<5, sel>>
         ELSE IF a = 3 /\ sel = 4 THEN <<6, sel>>
         ELSE <<ms, sel>>
    [] ms = 3 ->
         IF a = 2 /\ sel = 4 THEN <<3, 5>>
         ELSE IF a = 2 /\ sel = 5 THEN <<4, 6>>
         ELSE IF a = 1 /\ sel = 5 THEN <<3, 4>>
         ELSE IF a = 1 /\ sel = 4 THEN <<2, 3>>
         ELSE IF a = 3 /\ sel = 4 THEN <<6, sel>>
         ELSE IF a = 3 /\ sel = 5 THEN <<7, sel>>
         ELSE <<ms, sel>>
    [] ms = 4 ->
         IF a = 2 /\ sel = 5 THEN <<4, 6>>
         ELSE IF a = 1 /\ sel = 6 THEN <<4, 5>>
         ELSE IF a = 1 /\ sel = 5 THEN <<3, 4>>
         ELSE IF a = 3 /\ sel = 5 THEN <<7, sel>>
         ELSE IF a = 3 /\ sel = 6 THEN <<0, 1>>
         ELSE <<ms, sel>>
    [] ms = 6 \/ ms = 7 ->
         IF a = 3 THEN <<0, 1>> ELSE <<ms, sel>>
    [] ms = 8 ->
         IF a = 1 THEN <<8, 0>>
         ELSE IF a = 2 THEN <<8, 1>>
         ELSE IF a = 3 THEN <<0, 0>>
         ELSE <<ms, sel>>
    [] OTHER -> <<ms, sel>>

\* what the switch calls besides changing the menu position
MenuCall(ms, sel, a) ==
  CASE ms = 0 /\ sel = 0 /\ a = 3 -> "trigger"
    [] ms = 4 /\ sel = 6 /\ a = 3 -> "save"
    [] ms = 5 /\ a = 3            -> "bright"
    [] ms = 8 /\ a = 3            -> "preload"
    [] OTHER                      -> "none"

\* trigger(), lines 840-863: the playback starts
StartPlayback(b) ==
  /\ pc' = "play"
  /\ block' = 0
  /\ stopFlag' = FALSE
  /\ linesPerSec' = map(Speed, 0, 255, 10, maxLPS)
  /\ shown' = <<>>
  /\ passes' = 1
  /\ ackSeen' = FALSE
  /\ btn' = b

\* what the reads of lines 761-763 can find: the first pressed button decides
\* the code, so one pressed button stands for every set holding it, and no
\* button at all when the press ended right after the wait loop
Pressed == {{x} : x \in Buttons} \cup {{}}
\* the second sample (line 769) and the timer (line 775) are read in states 5..7 only
Sampled(ms) == IF ms > 4 /\ ms < 8 THEN BOOLEAN ELSE {FALSE}

\* one pass of loop(): menuDisplay, getInput and the switch, lines 212-430
Menu ==
  /\ pc = "menu"
  /\ \E b \in Pressed, held \in Sampled(menuState), elapsed \in Sampled(menuState) :
     \E a0 \in ReadCodes(b) :
       LET in == getInput(menuState, selected, a0, held, elapsed, buttonActive, longPress)
           a == in.a
           nx == MenuNext(menuState, selected, a)
           call == MenuCall(menuState, selected, a)
           B1 == IF menuState = 5 THEN Adjust(a, SetBrightness) ELSE SetBrightness
           S1 == IF menuState = 6 THEN Adjust(a, Speed) ELSE Speed
           D1 == IF menuState = 7 THEN Adjust(a, Delay) ELSE Delay
           changed == <<B1, S1, D1>> # <<SetBrightness, Speed, Delay>>
       IN
       /\ changed => adj < MaxAdjust
       /\ call = "bright" => scans < MaxRescans
       /\ scans' = IF call = "bright" THEN scans + 1 ELSE scans
       /\ adj' = IF changed THEN adj + 1 ELSE adj
       /\ buttonActive' = in.buttonActive
       /\ longPress' = in.longPress
       /\ SetBrightness' = B1
       /\ Speed' = S1
       /\ Delay' = D1
       /\ menuState' = nx[1]
       /\ selected' = nx[2]
       /\ frame' = IF menuState = 8 /\ a = 1 THEN FrameUp(frame, nFrames)
                   ELSE IF menuState = 8 /\ a = 2 THEN FrameDown(frame, nFrames)
                   ELSE frame
       /\ eeprom' = IF call = "save"
                    THEN saveConfig(eeprom, SetBrightness, Speed, Delay)
                    ELSE eeprom
       /\ CASE call = "trigger" ->
                 /\ StartPlayback(b)
                 /\ UNCHANGED <<diag, readFaults, after, firstBlock, nBlocks, sdBuf, armed>>
            [] call = "save" \/ call = "bright" ->
                 /\ pc' = "wait_press"
                 /\ UNCHANGED <<diag, readFaults>>
                 /\ after' = call
                 /\ btn' = {}
                 /\ UNCHANGED <<firstBlock, nBlocks, sdBuf, block, stopFlag,
                                linesPerSec, shown, passes, ackSeen, armed>>
            [] call = "preload" ->
                 \E delivered \in ReadOutcomes :
                 LET p == preload(dir, raw, fileIndex, frame, delivered)
                 IN /\ IF p.ok
                       THEN pc' = "menu" /\ UNCHANGED diag
                       ELSE delivered /\ preloadError(dir, raw, fileIndex, frame)
                    /\ readFaults' = IF p.ok THEN Counted(delivered) ELSE readFaults
                    /\ firstBlock' = IF p.ok THEN p.firstBlock ELSE firstBlock
                    /\ nBlocks' = IF p.ok THEN p.nBlocks ELSE nBlocks
                    /\ sdBuf' = IF p.ok THEN p.buf ELSE sdBuf
                    /\ armed' = (armed \/ p.ok)
                    /\ btn' = {}
                    /\ UNCHANGED <<after, block, stopFlag, linesPerSec, shown,
                                   passes, ackSeen>>
            [] OTHER ->
                 /\ pc' = "menu"
                 /\ UNCHANGED <<diag, readFaults>>
                 /\ btn' = {}
                 /\ UNCHANGED <<after, firstBlock, nBlocks, sdBuf, block,
                                stopFlag, linesPerSec, shown, passes, ackSeen,
                                armed>>
  /\ UNCHANGED <<dir, raw, layout, fileIndex, nFrames, maxLPS, leds, scanPos,
                 scanKind, ubI, ubOut, ci, profiled, oob, lastScan, prevScan>>
  /\ UNCHANGED lastCall
  /\ UNCHANGED <<freeBlocks, tables>>
  /\ UNCHANGED framesAt

\* lines 337-338 and 353-354: while(digitalRead(TRIGGER) == HIGH);
WaitPress ==
  /\ pc = "wait_press"
  /\ "trig" \in btn
  /\ pc' = "wait_release"
  /\ UNCHANGED <<after, dir, raw, layout, fileIndex, nFrames, frame, selected,
                 menuState, maxLPS, firstBlock, nBlocks, sdBuf, leds,
                 SetBrightness, Speed, Delay, eeprom, btn, buttonActive,
                 longPress, scanPos, scanKind, ubI, ubOut, ci, block, stopFlag,
                 linesPerSec, shown, passes, ackSeen, armed, profiled, adj, oob,
                 scans, lastScan, prevScan>>
  /\ UNCHANGED lastCall
  /\ UNCHANGED <<freeBlocks, tables>>
  /\ UNCHANGED framesAt
  /\ UNCHANGED readFaults
  /\ UNCHANGED diag

\* while(digitalRead(TRIGGER) == LOW); then back to loop() (save) or
\* completeScan() (brightness screen, line 355)
WaitRelease ==
  /\ pc = "wait_release"
  /\ "trig" \notin btn
  /\ IF after = "bright"
     THEN BeginComplete /\ after' = after
     ELSE /\ pc' = "menu"
          /\ after' = "setup"
          /\ UNCHANGED <<nFrames, scanPos, scanKind, ubI, ubOut>>
  /\ UNCHANGED <<dir, raw, layout, fileIndex, frame, selected,
                 menuState, maxLPS, firstBlock, nBlocks, sdBuf, leds,
                 SetBrightness, Speed, Delay, eeprom, btn, buttonActive,
                 longPress, ci, block, stopFlag, linesPerSec, shown, passes,
                 ackSeen, armed, profiled, adj, oob, scans, lastScan, prevScan>>
  /\ UNCHANGED lastCall
  /\ UNCHANGED <<freeBlocks, tables>>
  /\ UNCHANGED framesAt
  /\ UNCHANGED readFaults
  /\ UNCHANGED diag

(* ---------------- playback ---------------- *)
\* show(), lines 1155-1206: the LED part of the buffer goes to the strip
show(buf) == buf.led

\* Timer1 overflowed: one pass of the for(;;) of trigger(), lines 866-880
Tick ==
  /\ pc = "play"
  /\ leds' = show(sdBuf)
  /\ shown' = Append(shown, show(sdBuf))
  /\ IF stopFlag
     THEN /\ pc' = "ack_press"
          /\ UNCHANGED <<block, stopFlag, sdBuf, passes, readFaults>>
     ELSE IF block + 1 >= nBlocks
     THEN IF "trig" \notin btn
          THEN /\ sdBuf' = Memset0(sdBuf)
               /\ stopFlag' = TRUE
               /\ block' = block + 1
               /\ UNCHANGED <<pc, passes, readFaults>>
          ELSE /\ passes < MaxPasses
               /\ passes' = passes + 1
               /\ block' = 0
               /\ \E delivered \in ReadOutcomes :
                    /\ sdBuf' = readBlock(raw, 0 + firstBlock, delivered)
                    /\ readFaults' = Counted(delivered)
               /\ UNCHANGED <<pc, stopFlag>>
     ELSE /\ block' = block + 1
          /\ \E delivered \in ReadOutcomes :
               /\ sdBuf' = readBlock(raw, block + 1 + firstBlock, delivered)
               /\ readFaults' = Counted(delivered)
          /\ UNCHANGED <<pc, stopFlag, passes>>
  /\ UNCHANGED <<after, dir, raw, layout, fileIndex, nFrames, frame, selected,
                 menuState, maxLPS, firstBlock, nBlocks, SetBrightness, Speed,
                 Delay, eeprom, btn, buttonActive, longPress, scanPos, scanKind,
                 ubI, ubOut, ci, linesPerSec, ackSeen, armed, profiled, adj,
                 oob, scans, lastScan, prevScan>>
  /\ UNCHANGED lastCall
  /\ UNCHANGED <<freeBlocks, tables>>
  /\ UNCHANGED framesAt
  /\ UNCHANGED diag

\* faulty variant of AckPress: line 888 does not wait for a button
AckPress_noWait ==
  /\ pc = "ack_press"
  /\ pc' = "ack_release"
  /\ ackSeen' = (btn # {})
  /\ UNCHANGED <<after, dir, raw, layout, fileIndex, nFrames, frame, selected,
                 menuState, maxLPS, firstBlock, nBlocks, sdBuf, leds,
                 SetBrightness, Speed, Delay, eeprom, btn, buttonActive,
                 longPress, scanPos, scanKind, ubI, ubOut, ci, block, stopFlag,
                 linesPerSec, shown, passes, armed, profiled, adj, oob, scans,
                 lastScan, prevScan>>
  /\ UNCHANGED lastCall
  /\ UNCHANGED <<freeBlocks, tables>>
  /\ UNCHANGED framesAt
  /\ UNCHANGED readFaults
  /\ UNCHANGED diag

\* line 888: wait until some button reads LOW
AckPress ==
  /\ pc = "ack_press"
  /\ btn # {}
  /\ pc' = "ack_release"
  /\ ackSeen' = (btn # {})
  /\ UNCHANGED <<after, dir, raw, layout, fileIndex, nFrames, frame, selected,
                 menuState, maxLPS, firstBlock, nBlocks, sdBuf, leds,
                 SetBrightness, Speed, Delay, eeprom, btn, buttonActive,
                 longPress, scanPos, scanKind, ubI, ubOut, ci, block, stopFlag,
                 linesPerSec, shown, passes, armed, profiled, adj, oob, scans,
                 lastScan, prevScan>>
  /\ UNCHANGED lastCall
  /\ UNCHANGED <<freeBlocks, tables>>
  /\ UNCHANGED framesAt
  /\ UNCHANGED readFaults
  /\ UNCHANGED diag

\* line 889: wait until all buttons read HIGH, then return to loop();
\* the locals of trigger() and the playback history end here
AckRelease ==
  /\ pc = "ack_release"
  /\ btn = {}
  /\ pc' = "menu"
  /\ block' = 0 /\ stopFlag' = FALSE /\ linesPerSec' = 0
  /\ shown' = <<>> /\ passes' = 0
  /\ armed' = FALSE
  /\ UNCHANGED <<after, dir, raw, layout, fileIndex, nFrames, frame, selected,
                 menuState, maxLPS, firstBlock, nBlocks, sdBuf, leds,
                 SetBrightness, Speed, Delay, eeprom, btn, buttonActive,
                 longPress, scanPos, scanKind, ubI, ubOut, ci, ackSeen,
                 profiled, adj, oob, scans, lastScan, prevScan>>
  /\ UNCHANGED lastCall
  /\ UNCHANGED <<freeBlocks, tables>>
  /\ UNCHANGED framesAt
  /\ UNCHANGED readFaults
  /\ UNCHANGED diag

(* ---------------- the operator's buttons ---------------- *)
WaitingPcs == {"setup_ready", "setup_ask", "play", "ack_press", "ack_release",
               "wait_press", "wait_release", "error"}

\* the buttons the program reads at a position: TRIGGER in lines 155, 337-338,
\* 353-354 and 873; SEL_UP and SEL_DN in lines 168-177; all three in 888-889
Polled(at) ==
  CASE at \in {"setup_ready", "play", "wait_press", "wait_release"} -> {"trig"}
    [] at = "setup_ask" -> {"up", "dn"}
    [] OTHER -> Buttons

\* a button the program polls is pressed or released
Buttons_change ==
  /\ pc \in WaitingPcs
  /\ \E b \in SUBSET Buttons :
       /\ b # btn
       /\ (b \ Polled(pc)) = (btn \ Polled(pc))
       /\ btn' = b
  /\ UNCHANGED <<pc, after, dir, raw, layout, fileIndex, nFrames, frame,
                 selected, menuState, maxLPS, firstBlock, nBlocks, sdBuf, leds,
                 SetBrightness, Speed, Delay, eeprom, buttonActive, longPress,
                 scanPos, scanKind, ubI, ubOut, ci, block, stopFlag,
                 linesPerSec, shown, passes, ackSeen, armed, profiled, adj, oob,
                 scans, lastScan, prevScan>>
  /\ UNCHANGED lastCall
  /\ UNCHANGED <<freeBlocks, tables>>
  /\ UNCHANGED framesAt
  /\ UNCHANGED readFaults
  /\ UNCHANGED diag

(* ---------------- setup() ---------------- *)
\* faulty variant of Boot: the strip is not cleared by the show() of line 127
Boot_noShow ==
  /\ pc = "boot"
  /\ sdBuf' = Memset0(sdBuf)
  /\ leds' = leds
  /\ LET c == loadConfig(eeprom, <<SetBrightness, Speed, Delay>>)
     IN SetBrightness' = c[1] /\ Speed' = c[2] /\ Delay' = c[3]
  /\ \/ pc' = "setup_ready" /\ UNCHANGED diag
     \/ error("Failed! :( Check", "card or config..")
     \/ error("No FAT partition", "Verify format")
  /\ UNCHANGED <<after, dir, raw, layout, fileIndex, nFrames, frame, selected,
                 menuState, maxLPS, firstBlock, nBlocks, eeprom, btn,
                 buttonActive, longPress, scanPos, scanKind, ubI, ubOut, ci,
                 block, stopFlag, linesPerSec, shown, passes, ackSeen, armed,
                 profiled, adj, oob, scans, lastScan, prevScan>>
  /\ UNCHANGED lastCall
  /\ UNCHANGED <<freeBlocks, tables>>
  /\ UNCHANGED framesAt
  /\ UNCHANGED readFaults

\* lines 119-147: LEDs off, load the settings, initialise the card
Boot ==
  /\ pc = "boot"
  /\ sdBuf' = Memset0(sdBuf)
  /\ leds' = show(Memset0(sdBuf))
  /\ LET c == loadConfig(eeprom, <<SetBrightness, Speed, Delay>>)
     IN SetBrightness' = c[1] /\ Speed' = c[2] /\ Delay' = c[3]
  /\ \/ pc' = "setup_ready" /\ UNCHANGED diag
     \/ error("Failed! :( Check", "card or config..")
     \/ error("No FAT partition", "Verify format")
  /\ UNCHANGED <<after, dir, raw, layout, fileIndex, nFrames, frame, selected,
                 menuState, maxLPS, firstBlock, nBlocks, eeprom, btn,
                 buttonActive, longPress, scanPos, scanKind, ubI, ubOut, ci,
                 block, stopFlag, linesPerSec, shown, passes, ackSeen, armed,
                 profiled, adj, oob, scans, lastScan, prevScan>>
  /\ UNCHANGED lastCall
  /\ UNCHANGED <<freeBlocks, tables>>
  /\ UNCHANGED framesAt
  /\ UNCHANGED readFaults

\* line 155: wait for the trigger button
SetupReady ==
  /\ pc = "setup_ready"
  /\ "trig" \in btn
  /\ pc' = "setup_ask"
  /\ UNCHANGED <<after, dir, raw, layout, fileIndex, nFrames, frame, selected,
                 menuState, maxLPS, firstBlock, nBlocks, sdBuf, leds,
                 SetBrightness, Speed, Delay, eeprom, btn, buttonActive,
                 longPress, scanPos, scanKind, ubI, ubOut, ci, block, stopFlag,
                 linesPerSec, shown, passes, ackSeen, armed, profiled, adj, oob,
                 scans, lastScan, prevScan>>
  /\ UNCHANGED lastCall
  /\ UNCHANGED <<freeBlocks, tables>>
  /\ UNCHANGED framesAt
  /\ UNCHANGED readFaults
  /\ UNCHANGED diag

\* lines 168-180: up starts completeScan(), down starts shortScan()
SetupAsk ==
  /\ pc = "setup_ask"
  /\ "up" \in btn \/ "dn" \in btn
  /\ after' = "setup"
  /\ IF "up" \in btn
     THEN BeginComplete /\ btn' = btn \ {"up"}
     ELSE BeginShort /\ btn' = btn \ {"dn"}
  /\ UNCHANGED <<dir, raw, layout, fileIndex, frame, selected, menuState,
                 maxLPS, firstBlock, nBlocks, sdBuf, leds, SetBrightness, Speed,
                 Delay, eeprom, buttonActive, longPress, ci, block, stopFlag,
                 linesPerSec, shown, passes, ackSeen, armed, profiled, adj, oob,
                 scans, lastScan, prevScan>>
  /\ UNCHANGED lastCall
  /\ UNCHANGED <<freeBlocks, tables>>
  /\ UNCHANGED framesAt
  /\ UNCHANGED readFaults
  /\ UNCHANGED diag

(* ---------------- the device: power-on to menu and playback ---------------- *)
CardDirs == {DirOf(p, 0, 1, n) : p \in {"bmp", "mixed"}, n \in 0..MaxFiles}

\* raw files a card may hold at power-on, left by an earlier run
CardRaws(d) ==
  {[s \in 0..Len(d) |->
      IF s = 0 \/ ~Eligible(d[s]) THEN NoRaw
      ELSE CASE m = "ok"   -> OkRaw(d[s].rows)
             [] m = "last" -> IF s = Len(d) THEN FragRaw(d[s].rows) ELSE OkRaw(d[s].rows)
             [] OTHER      -> NoRaw]
   : m \in {"ok", "last", "none"}}

\* 2^23 blocks of 512 bytes, 4 GiB: the most one file can take
WholeCard == 8388608

InitCommon ==
  /\ fileIndex = ZeroTable
  /\ nFrames = 0 /\ frame = 0 /\ selected = 0 /\ menuState = 0
  /\ maxLPS = 0 /\ firstBlock = 0 /\ nBlocks = 0
  /\ sdBuf = WholeBlock(Off)
  /\ leds = Junk
  /\ SetBrightness = 125 /\ Speed = 125 /\ Delay = 0
  /\ btn = {}
  /\ buttonActive = FALSE /\ longPress = FALSE
  /\ scanPos = 1 /\ scanKind = "none" /\ ubI = 0 /\ ubOut = 0
  /\ ci = 0 /\ block = 0 /\ stopFlag = FALSE /\ linesPerSec = 0
  /\ shown = <<>> /\ passes = 0 /\ ackSeen = FALSE /\ adj = 0
  /\ armed = FALSE /\ profiled = <<>>
  /\ oob = FALSE /\ scans = 0
  /\ lastScan = NoScan /\ prevScan = NoScan
  /\ lastCall = NoCall
  /\ diag = <<>>

Init ==
  /\ InitCommon
  /\ pc = "boot"
  /\ after = "setup"
  /\ dir \in CardDirs
  /\ raw \in CardRaws(dir)
  /\ layout = "apart"
  /\ eeprom \in {BlankEeprom, SavedEeprom}
  /\ freeBlocks = WholeCard
  /\ tables = "square"
  /\ readFaults = MaxReadFaults      \* the card delivers every block it is asked for
  /\ framesAt = loadConfig(eeprom, <<SetBrightness, Speed, Delay>>)[1]

Next ==
  \/ Boot
  \/ SetupReady
  \/ SetupAsk
  \/ ScanStep
  \/ ScanDone
  \/ CheckSpeedStep
  \/ CheckSpeedDone
  \/ Preload
  \/ Menu
  \/ WaitPress
  \/ WaitRelease
  \/ Tick
  \/ AckPress
  \/ AckRelease
  \/ Buttons_change

Spec == Init /\ [][Next]_vars

\* the device on a card whose block reads may fail: converted frames are on the
\* card, the settings are the defaults
FaultInit ==
  /\ InitCommon
  /\ pc = "boot"
  /\ after = "setup"
  /\ dir = DirOf("bmp", 0, 1, 1)
  /\ raw \in {rw \in CardRaws(dir) : \A s \in DOMAIN rw : rw[s].state # "frag"}
  /\ layout = "apart"
  /\ eeprom = BlankEeprom
  /\ freeBlocks = WholeCard
  /\ tables = "square"
  /\ readFaults = 0
  /\ framesAt = loadConfig(eeprom, <<SetBrightness, Speed, Delay>>)[1]

FaultSpec == FaultInit /\ [][Next]_vars


(* ---------------- the scans alone: completeScan() and shortScan() ---------------- *)
ScanDirs ==
  {DirOf(p, 0, st, n) : p \in {"bmp", "mixed", "stems", "prefixed"}, st \in Strides,
                        n \in 0..ScanMaxFiles}

\* the globals as the sketch declares them (lines 87-96), a card without raw files
ScanInit ==
  /\ InitCommon
  /\ pc = "idle"
  /\ after = "api"
  /\ dir \in ScanDirs
  /\ raw = [s \in 0..Len(dir) |-> NoRaw]
  /\ layout \in {"decl", "rev", "apart"}
  /\ eeprom = BlankEeprom
  /\ freeBlocks = WholeCard
  /\ tables = "square"
  /\ readFaults = MaxReadFaults
  /\ framesAt = SetBrightness

\* a call of completeScan(), lines 452-518
ApiCompleteScan ==
  /\ pc = "idle"
  /\ scans < MaxApiScans
  /\ scans' = scans + 1
  /\ BeginComplete
  /\ UNCHANGED <<after, dir, raw, layout, fileIndex, frame, selected, menuState,
                 maxLPS, firstBlock, nBlocks, sdBuf, leds, SetBrightness, Speed,
                 Delay, eeprom, btn, buttonActive, longPress, ci, block,
                 stopFlag, linesPerSec, shown, passes, ackSeen, armed, profiled,
                 adj, oob, lastScan, prevScan>>
  /\ lastCall' = NoCall
  /\ UNCHANGED <<freeBlocks, tables>>
  /\ UNCHANGED framesAt
  /\ UNCHANGED readFaults
  /\ UNCHANGED diag

\* a call of shortScan(), lines 522-545
ApiShortScan ==
  /\ pc = "idle"
  /\ scans < MaxApiScans
  /\ scans' = scans + 1
  /\ BeginShort
  /\ UNCHANGED <<after, dir, raw, layout, fileIndex, frame, selected, menuState,
                 maxLPS, firstBlock, nBlocks, sdBuf, leds, SetBrightness, Speed,
                 Delay, eeprom, btn, buttonActive, longPress, ci, block,
                 stopFlag, linesPerSec, shown, passes, ackSeen, armed, profiled,
                 adj, oob, lastScan, prevScan>>
  /\ lastCall' = NoCall
  /\ UNCHANGED <<freeBlocks, tables>>
  /\ UNCHANGED framesAt
  /\ UNCHANGED readFaults
  /\ UNCHANGED diag

\* a call of getFileName(fileName, index, ext), lines 587-605, for an indexed file
ApiGetFileName ==
  /\ pc = "idle"
  /\ \E index \in 0..MaxLookup, ext \in 0..2 :
       /\ index < nFrames
       /\ lastCall' = [fn |-> "getFileName", index |-> index, ext |-> ext,
                       src |-> Resolve(dir, fileIndex[index]),
                       out |-> getFileNameExt(dir, fileIndex, index, ext)]
  /\ UNCHANGED <<pc, after, dir, raw, layout, fileIndex, nFrames, frame,
                 selected, menuState, maxLPS, firstBlock, nBlocks, sdBuf, leds,
                 SetBrightness, Speed, Delay, eeprom, btn, buttonActive,
                 longPress, scanPos, scanKind, ubI, ubOut, ci, block, stopFlag,
                 linesPerSec, shown, passes, ackSeen, armed, profiled, adj, oob,
                 scans, lastScan, prevScan>>
  /\ UNCHANGED diag
  /\ UNCHANGED <<freeBlocks, tables>>
  /\ UNCHANGED framesAt
  /\ UNCHANGED readFaults

ScanNext ==
  \/ ApiCompleteScan
  \/ ApiShortScan
  \/ ApiGetFileName
  \/ ScanStep
  \/ ScanDone

ScanSpec == ScanInit /\ [][ScanNext]_vars

(* ---------------- bmpProcess() alone ---------------- *)
CURRENT_MAX == 3500
HeaderBytes == 34
Signature == 19778          \* 0x4D42, "BM"

\* bounds of the conversions examined
MaxConversions == 2
SmallCard == 3              \* free blocks of a nearly full card
Widths == {1, 143, 144, 150, 32768}
Heights == {-2, 1, 2}
Levels == {0, 128, 255}
Settings == {0, 128, 255}
Tables == {"linear", "square"}

\* an int is 16 bits wide: the value a uint32_t header field leaves in one
I16(x) == LET m == x % 65536 IN IF m >= 32768 THEN m - 65536 ELSE m

\* a source file: len header bytes are present (34 when the header is whole),
\* data tells whether the pixel rows follow, v is the level of every channel
BmpFile(len, sig, planes, bpp, comp, w, h, v) ==
  [len |-> len, data |-> (len = HeaderBytes), sig |-> sig, planes |-> planes,
   bpp |-> bpp, comp |-> comp, width |-> w, height |-> h, v |-> v]

ValidFiles ==
  {BmpFile(HeaderBytes, Signature, 1, 24, 0, w, h, v) :
     w \in Widths, h \in Heights, v \in Levels}

\* whole headers with one field off: a PNG signature, 0 planes, 8 bits, RLE
InvalidFiles ==
  { BmpFile(HeaderBytes, 20617, 1, 24, 0, 144, 1, 255),
    BmpFile(HeaderBytes, Signature, 0, 24, 0, 144, 1, 255),
    BmpFile(HeaderBytes, Signature, 1, 8, 0, 144, 1, 255),
    BmpFile(HeaderBytes, Signature, 1, 24, 1, 144, 1, 255) }

\* files that end inside the header
ShortFiles ==
  {BmpFile(len, Signature, 1, 24, 0, 144, 1, 255) : len \in {0, 2, 30}}

BmpFiles == ValidFiles \cup InvalidFiles \cup ShortFiles

\* a converted row in the buffer: LED bytes of value c from byte `first` on
Px(c, first) == IF c = 0 THEN Off ELSE [kind |-> "px", f |-> c, r |-> first]

\* the value of the bytes 0..33 of sdBuf that a short read leaves in place
StaleByte(buf) ==
  IF buf.led.kind = "px" /\ buf.led.r < HeaderBytes THEN buf.led.f ELSE 0

\* lines 943-947: inFile.read(sdBuf, 34) returns the count of bytes read, and
\* the four fields are then taken from sdBuf whether or not the read filled them
HeaderAccepted(file, buf) ==
  LET c == StaleByte(buf)
      f16(end, val) == IF file.len >= end THEN val ELSE 257 * c
  IN /\ file.len # 0
     /\ f16(2, file.sig) = Signature
     /\ f16(28, file.planes) = 1
     /\ f16(30, file.bpp) = 24
     /\ IF file.len >= HeaderBytes THEN file.comp = 0 ELSE c = 0

\* lines 950-951: the dimensions, cut to the 16 bits of an int
SeenWidth(file, buf) ==
  I16(IF file.len >= 22 THEN file.width ELSE 257 * StaleByte(buf))
SeenHeight(file, buf) ==
  I16(IF file.len >= 26 THEN file.height ELSE 257 * StaleByte(buf))

\* line 959: 512L * bmpHeight converted to the uint32_t size of createContiguous,
\* in blocks; a negative height h asks for 2^32 + 512 * h bytes
BlocksRequested(h) == IF h >= 0 THEN h ELSE WholeCard + h

\* faulty variant of Scale: b = 0 is scaled like every other value
Scale_always(v, b) == U8(U16(v * b) \div 256)

\* lines 1010-1018: brightness scaling in unsigned 16-bit arithmetic (uint8_t
\* times the uint16_t b16 of line 972), b = 0 meaning no scaling
Scale(v, b) == IF b # 0 THEN U8(U16(v * b) \div 256) ELSE v

\* gamma[] and bump[] of gamma.h: a monotonic lookup from 0 to 255 and the
\* quantization error that the dither thresholds round upward
gamma(g, x) == IF g = "linear" THEN x ELSE (x * x) \div 255
bump(g, x) == IF g = "linear" THEN 0 ELSE (x * x) % 255

\* lines 1009-1028: the sum of a row of `columns` pixels of level v; the
\* thresholds of dither[] are spread evenly, so bump/256 of the bytes round up
RowSum(g, v, b, columns) ==
  LET x == Scale(v, b)
  IN IF columns <= 0 THEN 0
     ELSE 3 * (columns * gamma(g, x) + (columns * bump(g, x)) \div 256)

\* the LED byte a row of level v leaves in the buffer
RowByte(g, v, b) == gamma(g, Scale(v, b))

\* lines 1040-1043: mA at 20 mA per LED, divided by CORRECTION_FACTOR 1.4
Estimate(lineMax) == (((lineMax * 20) \div 255) * 5) \div 7

\* lines 1045-1048
Suggested(B, est) == IF est > CURRENT_MAX THEN (B * CURRENT_MAX) \div est ELSE B

\* completeScan(), line 469: the brightness handed to bmpProcess
ScanBrightness(S) == map(S, 0, 255, 1, 255)

\* the inputs of a call: any file at the brightness of a setting, or the file of
\* the call before at the brightness that call handed back (line 493)
BmpInputs ==
  {<<f, ScanBrightness(S)>> : f \in BmpFiles, S \in Settings}
  \cup (IF lastCall.fn = "bmpProcess" /\ lastCall.done
        THEN {<<lastCall.file, lastCall.Bout>>} ELSE {})

BmpCall(file, B) ==
  [fn |-> "bmpProcess", file |-> file, B |-> B, b |-> U8(1 + B),
   had |-> (raw[1].state # "none"), accepted |-> FALSE, removed |-> FALSE,
   created |-> FALSE, allocated |-> 0, written |-> 0, frameMax |-> 0,
   width |-> 0, height |-> 0, flip |-> FALSE, bmpStartCol |-> 0,
   ledStart |-> 0, columns |-> 0, row |-> 0, lineMax |-> 0, est |-> 0,
   Bout |-> B, done |-> FALSE]

\* bmpProcess(inName, outName, &b), lines 934-988: the header, the output file
\* and the crop
ApiBmpProcess ==
  /\ pc = "idle"
  /\ scans < MaxConversions
  /\ scans' = scans + 1
  /\ \E in \in BmpInputs :
       LET file == in[1]
           c0 == BmpCall(file, in[2])
           w == SeenWidth(file, sdBuf)
           h == SeenHeight(file, sdBuf)
           req == BlocksRequested(h)
           head == IF file.len = 0 THEN sdBuf ELSE [sdBuf EXCEPT !.led = Junk]
           wide == w >= N_LEDS
           \* lines 949-956: the header is taken and the old Frame removed
           cH == [c0 EXCEPT !.accepted = TRUE, !.removed = TRUE,
                            !.width = w, !.height = h]
           \* lines 971-988, reached when the output file exists
           c1 == [cH EXCEPT !.height = IF h < 0 THEN -h ELSE h,
                            !.flip = (h < 0),
                            !.bmpStartCol = IF wide THEN TruncDiv(w - N_LEDS, 2) ELSE 0,
                            !.ledStart = IF wide THEN 0
                                         ELSE I16(TruncDiv(I16(N_LEDS - w), 2) * 3),
                            !.columns = IF wide THEN N_LEDS ELSE w]
       IN
       IF ~HeaderAccepted(file, sdBuf)
       THEN /\ error(":( BMP format", " not recognized.")
            /\ lastCall' = c0
            /\ sdBuf' = head
            /\ UNCHANGED <<raw, firstBlock, nBlocks>>
       ELSE IF req = 0 \/ req > freeBlocks
       THEN /\ error(":( error", "creating file")
            /\ lastCall' = cH
            /\ sdBuf' = head
            /\ raw' = [raw EXCEPT ![1] = NoRaw]
            /\ UNCHANGED <<firstBlock, nBlocks>>
       ELSE /\ pc' = "bmp"
            /\ UNCHANGED diag
            /\ lastCall' = [c1 EXCEPT !.created = TRUE, !.allocated = req]
            /\ sdBuf' = IF wide THEN head ELSE Memset0(head)
            /\ raw' = [raw EXCEPT ![1] = OkRaw(req)]
            /\ firstBlock' = First(1)
            \* nBlocks = bmpHeight: a negative int becomes 2^32 + h, held here
            \* as the largest 32-bit signed integer
            /\ nBlocks' = IF h >= 0 THEN h ELSE 2147483647
  /\ UNCHANGED <<after, dir, layout, fileIndex, nFrames, frame, selected,
                 menuState, maxLPS, leds, SetBrightness, Speed, Delay, eeprom,
                 btn, buttonActive, longPress, scanPos, scanKind, ubI, ubOut,
                 ci, block, stopFlag, linesPerSec, shown, passes, ackSeen,
                 armed, profiled, adj, oob, lastScan, prevScan, freeBlocks,
                 tables, readFaults, framesAt>>

\* one pass of the row loop, lines 990-1036
BmpRow ==
  /\ pc = "bmp"
  /\ lastCall.row < lastCall.height
  /\ LET c == lastCall
         sum == RowSum(tables, c.file.v, c.b, c.columns)
         byte == RowByte(tables, c.file.v, c.b)
     IN
     IF ~c.file.data
     THEN \* read() found the end of the file
          /\ error(":( Read error", "during raw conv.")
          /\ UNCHANGED <<lastCall, sdBuf, oob>>
     ELSE \E written \in BOOLEAN :
            \* a negative column count reads past the end of sdBuf
            /\ oob' = (oob \/ c.columns < 0)
            /\ sdBuf' = IF c.columns < 0 THEN WholeBlock(Junk)
                        ELSE [sdBuf EXCEPT !.led = Px(byte, c.ledStart)]
            /\ IF ~written
               THEN /\ error(":( Write error", "during raw conv.")
                    /\ UNCHANGED lastCall
               ELSE /\ UNCHANGED <<pc, diag>>
                    /\ lastCall' = [c EXCEPT !.row = c.row + 1,
                                             !.written = c.written + 1,
                                             !.frameMax = IF sum > c.frameMax
                                                          THEN sum ELSE c.frameMax,
                                             !.lineMax = IF sum > c.lineMax
                                                         THEN sum ELSE c.lineMax]
  /\ UNCHANGED <<after, dir, raw, layout, fileIndex, nFrames, frame, selected,
                 menuState, maxLPS, firstBlock, nBlocks, leds, SetBrightness,
                 Speed, Delay, eeprom, btn, buttonActive, longPress, scanPos,
                 scanKind, ubI, ubOut, ci, block, stopFlag, linesPerSec, shown,
                 passes, ackSeen, armed, profiled, adj, scans, lastScan,
                 prevScan, freeBlocks, tables, readFaults, framesAt>>

\* the rows are done: the estimate and the brightness handed back, lines 1039-1056
BmpDone ==
  /\ pc = "bmp"
  /\ lastCall.row >= lastCall.height
  /\ pc' = "idle"
  /\ LET est == Estimate(lastCall.lineMax)
     IN lastCall' = [lastCall EXCEPT !.est = est,
                                     !.Bout = Suggested(lastCall.B, est),
                                     !.done = TRUE]
  /\ UNCHANGED <<after, dir, raw, layout, fileIndex, nFrames, frame, selected,
                 menuState, maxLPS, firstBlock, nBlocks, sdBuf, leds,
                 SetBrightness, Speed, Delay, eeprom, btn, buttonActive,
                 longPress, scanPos, scanKind, ubI, ubOut, ci, block, stopFlag,
                 linesPerSec, shown, passes, ackSeen, armed, profiled, adj, oob,
                 scans, lastScan, prevScan, diag, freeBlocks, tables,
                 readFaults, framesAt>>

BmpInit ==
  /\ InitCommon
  /\ pc = "idle"
  /\ after = "api"
  /\ dir = DirOf("bmp", 0, 1, 1)
  /\ raw \in {[s \in 0..1 |-> NoRaw], [s \in 0..1 |-> IF s = 1 THEN OkRaw(1) ELSE NoRaw]}
  /\ layout = "apart"
  /\ eeprom = BlankEeprom
  /\ freeBlocks \in {SmallCard, WholeCard}
  /\ tables \in Tables
  /\ readFaults = MaxReadFaults
  /\ framesAt = SetBrightness

BmpNext ==
  \/ ApiBmpProcess
  \/ BmpRow
  \/ BmpDone

BmpSpec == BmpInit /\ [][BmpNext]_vars


(* ---------------- show() alone, instruction by instruction ---------------- *)
\* bounds of the transmissions examined
MaxShows == 1

\* a buffer given byte by byte: byte k is (m * k + a) mod 256
Bytes(m, a) == [kind |-> "bytes", f |-> m, r |-> a]

\* sdBuf[k]; the bytes from N_LEDS * 3 on are the rest of the block
ByteAt(buf, k) ==
  LET c == IF k < N_LEDS * 3 THEN buf.led ELSE buf.pad
  IN CASE c.kind = "off" -> 0
       [] c.kind = "bytes" -> (c.f * k + c.r) % 256

\* bit j (7 = most significant) of a byte
BitOf(byte, j) == (byte \div (2 ^ j)) % 2

\* faulty variant of Rol: the byte is not rotated
Rol_keep(byte, carry) == [byte |-> byte, carry |-> carry]

\* rol: rotate left through carry
Rol(byte, carry) == [byte |-> (2 * byte + carry) % 256, carry |-> byte \div 128]

\* faulty variant of SbrcCycles: a skip as cheap as no skip
SbrcCycles_flat(skip) == 1

\* sbrc before a one-word instruction: 1 cycle, 2 when it skips
SbrcCycles(skip) == IF skip THEN 2 ELSE 1

\* lines 1156-1169: the locals of show() once interrupts are off
ShowEntry(buf, carry) ==
  [fn |-> "show", ip |-> 0, count |-> N_LEDS * 3, ptr |-> 1,
   byte |-> ByteAt(buf, 0), bit |-> 8, next |-> 0, pin |-> 0,
   carry |-> carry, zero |-> FALSE, ie |-> FALSE,
   emitted |-> 0, edges |-> 0, cycles |-> 0]

\* the instructions of the asm block, lines 1171-1193, numbered from head20;
\* 14 is nextbyte20, 20 is the instruction after the block
Exec(c, buf) ==
  CASE c.ip = 0 ->   \* st port, hi
         [c EXCEPT !.pin = 1, !.edges = c.edges + 1, !.ip = 1, !.cycles = c.cycles + 2]
    [] c.ip = 1 ->   \* sbrc byte, 7
         LET skip == BitOf(c.byte, 7) = 0
         IN [c EXCEPT !.ip = IF skip THEN 3 ELSE 2,
                      !.cycles = c.cycles + SbrcCycles(skip)]
    [] c.ip = 2 ->   \* mov next, hi
         [c EXCEPT !.next = 1, !.ip = 3, !.cycles = c.cycles + 1]
    [] c.ip = 3 ->   \* dec bit
         [c EXCEPT !.bit = (c.bit + 255) % 256,
                   !.zero = ((c.bit + 255) % 256 = 0),
                   !.ip = 4, !.cycles = c.cycles + 1]
    [] c.ip = 4 ->   \* st port, next
         [c EXCEPT !.pin = c.next, !.emitted = c.emitted + 1, !.ip = 5,
                   !.cycles = c.cycles + 2]
    [] c.ip = 5 ->   \* mov next, lo
         [c EXCEPT !.next = 0, !.ip = 6, !.cycles = c.cycles + 1]
    [] c.ip = 6 ->   \* breq nextbyte20
         [c EXCEPT !.ip = IF c.zero THEN 14 ELSE 7,
                   !.cycles = c.cycles + (IF c.zero THEN 2 ELSE 1)]
    [] c.ip = 7 ->   \* rol byte
         LET r == Rol(c.byte, c.carry)
         IN [c EXCEPT !.byte = r.byte, !.carry = r.carry,
                      !.zero = (r.byte = 0), !.ip = 8, !.cycles = c.cycles + 1]
    [] c.ip \in {8, 12} ->   \* rjmp .+0
         [c EXCEPT !.ip = c.ip + 1, !.cycles = c.cycles + 2]
    [] c.ip \in {9, 11, 17} ->   \* nop
         [c EXCEPT !.ip = c.ip + 1, !.cycles = c.cycles + 1]
    [] c.ip \in {10, 16} ->   \* st port, lo
         [c EXCEPT !.pin = 0, !.ip = c.ip + 1, !.cycles = c.cycles + 2]
    [] c.ip = 13 ->  \* rjmp head20
         [c EXCEPT !.ip = 0, !.cycles = c.cycles + 2]
    [] c.ip = 14 ->  \* ldi bit, 8
         [c EXCEPT !.bit = 8, !.ip = 15, !.cycles = c.cycles + 1]
    [] c.ip = 15 ->  \* ld byte, ptr+
         [c EXCEPT !.byte = ByteAt(buf, c.ptr), !.ptr = c.ptr + 1, !.ip = 16,
                   !.cycles = c.cycles + 2]
    [] c.ip = 18 ->  \* sbiw count, 1
         [c EXCEPT !.count = (c.count + 65535) % 65536,
                   !.zero = ((c.count + 65535) % 65536 = 0),
                   !.carry = IF c.count = 0 THEN 1 ELSE 0,
                   !.ip = 19, !.cycles = c.cycles + 2]
    [] c.ip = 19 ->  \* brne head20
         [c EXCEPT !.ip = IF c.zero THEN 20 ELSE 0,
                   !.cycles = c.cycles + (IF c.zero THEN 1 ELSE 2)]

ShowBuffers ==
  { [led |-> c, pad |-> Bytes(1, 0)] :
      c \in {Off, Bytes(0, 255), Bytes(1, 0), Bytes(85, 170), Bytes(7, 128)} }

\* a call of show(): lines 1156-1169, the carry flag being whatever it was
ApiShow ==
  /\ pc = "idle"
  /\ scans < MaxShows
  /\ scans' = scans + 1
  /\ pc' = "show"
  /\ \E carry \in {0, 1} : lastCall' = ShowEntry(sdBuf, carry)
  /\ UNCHANGED <<after, dir, raw, layout, fileIndex, nFrames, frame, selected,
                 menuState, maxLPS, firstBlock, nBlocks, sdBuf, leds,
                 SetBrightness, Speed, Delay, eeprom, btn, buttonActive,
                 longPress, scanPos, scanKind, ubI, ubOut, ci, block, stopFlag,
                 linesPerSec, shown, passes, ackSeen, armed, profiled, adj, oob,
                 lastScan, prevScan, diag, freeBlocks, tables, readFaults,
                 framesAt>>

\* one instruction of the asm block
ShowStep ==
  /\ pc = "show"
  /\ lastCall.ip < 20
  /\ lastCall' = Exec(lastCall, sdBuf)
  /\ UNCHANGED <<pc, after, dir, raw, layout, fileIndex, nFrames, frame,
                 selected, menuState, maxLPS, firstBlock, nBlocks, sdBuf, leds,
                 SetBrightness, Speed, Delay, eeprom, btn, buttonActive,
                 longPress, scanPos, scanKind, ubI, ubOut, ci, block, stopFlag,
                 linesPerSec, shown, passes, ackSeen, armed, profiled, adj, oob,
                 scans, lastScan, prevScan, diag, freeBlocks, tables,
                 readFaults, framesAt>>

\* line 1203: interrupts(), and show() returns
ShowReturn ==
  /\ pc = "show"
  /\ lastCall.ip = 20
  /\ pc' = "idle"
  /\ lastCall' = [lastCall EXCEPT !.ie = TRUE]
  /\ leds' = show(sdBuf)
  /\ UNCHANGED <<after, dir, raw, layout, fileIndex, nFrames, frame, selected,
                 menuState, maxLPS, firstBlock, nBlocks, sdBuf, SetBrightness,
                 Speed, Delay, eeprom, btn, buttonActive, longPress, scanPos,
                 scanKind, ubI, ubOut, ci, block, stopFlag, linesPerSec, shown,
                 passes, ackSeen, armed, profiled, adj, oob, scans, lastScan,
                 prevScan, diag, freeBlocks, tables, readFaults, framesAt>>

ShowInit ==
  /\ InitCommon
  /\ pc = "idle"
  /\ after = "api"
  /\ dir = <<>>
  /\ raw = [s \in 0..0 |-> NoRaw]
  /\ layout = "apart"
  /\ eeprom = BlankEeprom
  /\ freeBlocks = WholeCard
  /\ tables = "square"
  /\ readFaults = MaxReadFaults
  /\ framesAt = SetBrightness

\* InitCommon leaves sdBuf cleared; the transmissions examined start from a
\* buffer a block read has filled
ShowLoaded ==
  /\ pc = "idle"
  /\ scans = 0
  /\ sdBuf = WholeBlock(Off)
  /\ sdBuf' \in ShowBuffers
  /\ scans' = scans
  /\ UNCHANGED <<pc, after, dir, raw, layout, fileIndex, nFrames, frame,
                 selected, menuState, maxLPS, firstBlock, nBlocks, leds,
                 SetBrightness, Speed, Delay, eeprom, btn, buttonActive,
                 longPress, scanPos, scanKind, ubI, ubOut, ci, block, stopFlag,
                 linesPerSec, shown, passes, ackSeen, armed, profiled, adj, oob,
                 lastScan, prevScan, lastCall, diag, freeBlocks, tables,
                 readFaults, framesAt>>

ShowNext ==
  \/ ShowLoaded
  \/ ApiShow
  \/ ShowStep
  \/ ShowReturn

ShowSpec == ShowInit /\ [][ShowNext]_vars

(* ---------------- trigger() alone, with time ---------------- *)
\* bounds of the playbacks examined, in units of time
MaxPlaybacks == 1
Period == 3                 \* Timer1 overflows every Period units
ShowTime == 1               \* a transmission
LoadTimes == {1, 4}         \* a block read: shorter, and longer, than the period

\* sdBuf while readBlock() is filling it
Partial == [kind |-> "partial", f |-> 0, r |-> 0]

\* lines 839-863: trigger() up to its loop, TOV1 as the set-up left it
TriggerEntry(tov) ==
  [fn |-> "trigger", phase |-> "wait", busy |-> 0, timer |-> 0, tov |-> tov]

\* faulty variant of CanTransmit: the overflow starts a transmission wherever
\* the program is, as an interrupt routine would
CanTransmit_isr(c) == c.tov

\* line 866: while(!(TIFR1 & _BV(TOV1))); the program is at the top of its loop
\* and the overflow flag is set
CanTransmit(c) == c.phase = "wait" /\ c.tov

\* a call of trigger() after preload(), lines 832 and 839-863
ApiTrigger ==
  /\ pc = "idle"
  /\ scans < MaxPlaybacks
  /\ scans' = scans + 1
  /\ pc' = "play"
  /\ firstBlock' = First(1)
  /\ nBlocks' = raw[1].rows
  /\ sdBuf' = BlockAt(raw, First(1))
  /\ block' = 0
  /\ stopFlag' = FALSE
  /\ linesPerSec' = map(Speed, 0, 255, 10, maxLPS)
  /\ btn' = {"trig"}
  /\ \E tov \in BOOLEAN : lastCall' = TriggerEntry(tov)
  /\ UNCHANGED <<after, dir, raw, layout, fileIndex, nFrames, frame, selected,
                 menuState, maxLPS, leds, SetBrightness, Speed, Delay, eeprom,
                 buttonActive, longPress, scanPos, scanKind, ubI, ubOut, ci,
                 shown, passes, ackSeen, armed, profiled, adj, oob, lastScan,
                 prevScan, diag, freeBlocks, tables, readFaults, framesAt>>

\* lines 866-869: the overflow is seen, the flag cleared and show() begins
PlayTransmit ==
  /\ pc = "play"
  /\ CanTransmit(lastCall)
  /\ lastCall' = [lastCall EXCEPT !.tov = FALSE, !.phase = "show", !.busy = ShowTime]
  /\ leds' = show(sdBuf)
  /\ UNCHANGED <<pc, after, dir, raw, layout, fileIndex, nFrames, frame,
                 selected, menuState, maxLPS, firstBlock, nBlocks, sdBuf,
                 SetBrightness, Speed, Delay, eeprom, btn, buttonActive,
                 longPress, scanPos, scanKind, ubI, ubOut, ci, block, stopFlag,
                 linesPerSec, shown, passes, ackSeen, armed, profiled, adj, oob,
                 scans, lastScan, prevScan, diag, freeBlocks, tables,
                 readFaults, framesAt>>

\* faulty variant of PastLastBlock: the end of the frame is never noticed
PastLastBlock_never(b, n) == FALSE

\* line 871: if(++block >= nBlocks), b the block just shown
PastLastBlock(b, n) == b + 1 >= n

\* lines 870-880: show() has returned; the stop, the end-of-frame check and the
\* start of the next block read
PlayAfterShow ==
  /\ pc = "play"
  /\ lastCall.phase = "show"
  /\ lastCall.busy = 0
  /\ IF stopFlag
     THEN /\ pc' = "ack_press"
          /\ lastCall' = [lastCall EXCEPT !.phase = "done"]
          /\ UNCHANGED <<block, stopFlag, sdBuf>>
     ELSE IF PastLastBlock(block, nBlocks) /\ "trig" \notin btn
     THEN /\ sdBuf' = Memset0(sdBuf)
          /\ stopFlag' = TRUE
          /\ block' = block + 1
          /\ lastCall' = [lastCall EXCEPT !.phase = "wait"]
          /\ UNCHANGED pc
     ELSE /\ block' = IF PastLastBlock(block, nBlocks) THEN 0 ELSE block + 1
          /\ sdBuf' = WholeBlock(Partial)
          /\ \E t \in LoadTimes :
               lastCall' = [lastCall EXCEPT !.phase = "load", !.busy = t]
          /\ UNCHANGED <<pc, stopFlag>>
  /\ UNCHANGED <<after, dir, raw, layout, fileIndex, nFrames, frame, selected,
                 menuState, maxLPS, firstBlock, nBlocks, leds, SetBrightness,
                 Speed, Delay, eeprom, btn, buttonActive, longPress, scanPos,
                 scanKind, ubI, ubOut, ci, linesPerSec, shown, passes, ackSeen,
                 armed, profiled, adj, oob, scans, lastScan, prevScan, diag,
                 freeBlocks, tables, readFaults, framesAt>>

\* line 880: readBlock() returns with the block in sdBuf
PlayLoaded ==
  /\ pc = "play"
  /\ lastCall.phase = "load"
  /\ lastCall.busy = 0
  /\ sdBuf' = BlockAt(raw, block + firstBlock)
  /\ lastCall' = [lastCall EXCEPT !.phase = "wait"]
  /\ UNCHANGED <<pc, after, dir, raw, layout, fileIndex, nFrames, frame,
                 selected, menuState, maxLPS, firstBlock, nBlocks, leds,
                 SetBrightness, Speed, Delay, eeprom, btn, buttonActive,
                 longPress, scanPos, scanKind, ubI, ubOut, ci, block, stopFlag,
                 linesPerSec, shown, passes, ackSeen, armed, profiled, adj, oob,
                 scans, lastScan, prevScan, diag, freeBlocks, tables,
                 readFaults, framesAt>>

\* a unit of time passes while show() or readBlock() runs or the loop of line
\* 866 spins; Timer1 counts on and sets TOV1 when it overflows
PlayTime ==
  /\ pc = "play"
  /\ \/ lastCall.phase \in {"show", "load"} /\ lastCall.busy > 0
     \/ lastCall.phase = "wait" /\ ~lastCall.tov
  /\ lastCall' = [lastCall EXCEPT
                    !.busy = IF lastCall.busy > 0 THEN lastCall.busy - 1 ELSE 0,
                    !.timer = (lastCall.timer + 1) % Period,
                    !.tov = (lastCall.tov \/ lastCall.timer + 1 = Period)]
  /\ UNCHANGED <<pc, after, dir, raw, layout, fileIndex, nFrames, frame,
                 selected, menuState, maxLPS, firstBlock, nBlocks, sdBuf, leds,
                 SetBrightness, Speed, Delay, eeprom, btn, buttonActive,
                 longPress, scanPos, scanKind, ubI, ubOut, ci, block, stopFlag,
                 linesPerSec, shown, passes, ackSeen, armed, profiled, adj, oob,
                 scans, lastScan, prevScan, diag, freeBlocks, tables,
                 readFaults, framesAt>>

PlayInit ==
  /\ InitCommon
  /\ pc = "idle"
  /\ after = "api"
  /\ dir = DirOf("bmp", 0, 1, 1)
  /\ raw \in {[s \in 0..1 |-> IF s = 1 THEN OkRaw(n) ELSE NoRaw] : n \in 1..3}
  /\ layout = "apart"
  /\ eeprom = BlankEeprom
  /\ freeBlocks = WholeCard
  /\ tables = "square"
  /\ readFaults = MaxReadFaults
  /\ framesAt = SetBrightness

PlayProgram ==
  \/ PlayTransmit
  \/ PlayAfterShow
  \/ PlayLoaded
  \/ PlayTime

PlayNext ==
  \/ ApiTrigger
  \/ PlayProgram
  \/ Buttons_change

PlaySpec == PlayInit /\ [][PlayNext]_vars

\* the timer keeps counting and the program keeps running
FairPlaySpec == PlaySpec /\ WF_vars(PlayProgram)

(* ---------------- benchmark() alone ---------------- *)
\* bounds: the sizes of the frame measured, and the reads followed
MaxBlocks == 3
MaxReads == 6

\* a uint32_t as its two 16-bit halves
U32(hi, lo) == [hi |-> hi, lo |-> lo]

\* line 1085: --n on a uint32_t, 0 wraps to 2^32 - 1
Dec32(n) ==
  IF n.lo > 0 THEN [n EXCEPT !.lo = n.lo - 1]
  ELSE U32(U16(n.hi + 65535), 65535)

\* lines 1077-1079: benchmark(block, n) entered
BenchEntry(first, count) ==
  [fn |-> "benchmark", first |-> first, count |-> count, block |-> first,
   n |-> U32(0, count), maxTime |-> 0, reads |-> <<>>, lats |-> <<>>,
   done |-> FALSE]

\* a call of benchmark() for the frame of slot 1, as checkSpeed() makes it
\* (lines 559-565)
ApiBenchmark ==
  /\ pc = "idle"
  /\ scans < MaxPlaybacks
  /\ scans' = scans + 1
  /\ pc' = "bench"
  /\ firstBlock' = First(1)
  /\ nBlocks' = raw[1].rows
  /\ lastCall' = BenchEntry(First(1), raw[1].rows)
  /\ UNCHANGED <<after, dir, raw, layout, fileIndex, nFrames, frame, selected,
                 menuState, maxLPS, sdBuf, leds, SetBrightness, Speed, Delay,
                 eeprom, btn, buttonActive, longPress, scanPos, scanKind, ubI,
                 ubOut, ci, block, stopFlag, linesPerSec, shown, passes,
                 ackSeen, armed, profiled, adj, oob, lastScan, prevScan, diag,
                 freeBlocks, tables, readFaults, framesAt>>

\* lines 1081-1085: one pass of the do-while: the read is timed, the maximum
\* kept, the counter decremented and tested
BenchRead ==
  /\ pc = "bench"
  /\ ~lastCall.done
  /\ Len(lastCall.reads) < MaxReads
  /\ \E t \in Latencies :
       LET n1 == Dec32(lastCall.n)
       IN lastCall' = [lastCall EXCEPT
                         !.reads = Append(lastCall.reads, lastCall.block),
                         !.lats = Append(lastCall.lats, t),
                         !.block = lastCall.block + 1,
                         !.maxTime = benchmarkFrom(<<t>>, lastCall.maxTime),
                         !.n = n1,
                         !.done = (n1 = U32(0, 0))]
  /\ sdBuf' = readBlock(raw, lastCall.block, TRUE)
  /\ UNCHANGED <<pc, after, dir, raw, layout, fileIndex, nFrames, frame,
                 selected, menuState, maxLPS, firstBlock, nBlocks, leds,
                 SetBrightness, Speed, Delay, eeprom, btn, buttonActive,
                 longPress, scanPos, scanKind, ubI, ubOut, ci, block, stopFlag,
                 linesPerSec, shown, passes, ackSeen, armed, profiled, adj, oob,
                 scans, lastScan, prevScan, diag, freeBlocks, tables,
                 readFaults, framesAt>>

\* line 1087: return maxTime; checkSpeed() makes a rate of it (lines 564-567)
BenchReturn ==
  /\ pc = "bench"
  /\ lastCall.done
  /\ pc' = "idle"
  /\ profiled' = <<LinesPerSecFor(lastCall.maxTime)>>
  /\ maxLPS' = updateMaxLPS(maxLPS, LinesPerSecFor(lastCall.maxTime))
  /\ UNCHANGED <<after, dir, raw, layout, fileIndex, nFrames, frame, selected,
                 menuState, firstBlock, nBlocks, sdBuf, leds, SetBrightness,
                 Speed, Delay, eeprom, btn, buttonActive, longPress, scanPos,
                 scanKind, ubI, ubOut, ci, block, stopFlag, linesPerSec, shown,
                 passes, ackSeen, armed, adj, oob, scans, lastScan, prevScan,
                 lastCall, diag, freeBlocks, tables, readFaults, framesAt>>

\* the card holds one raw file, of 0 to MaxBlocks blocks
BenchInit ==
  /\ InitCommon
  /\ pc = "idle"
  /\ after = "api"
  /\ dir = DirOf("bmp", 0, 1, 1)
  /\ raw \in {[s \in 0..1 |-> IF s = 1 THEN OkRaw(n) ELSE NoRaw] : n \in 0..MaxBlocks}
  /\ layout = "apart"
  /\ eeprom = BlankEeprom
  /\ freeBlocks = WholeCard
  /\ tables = "square"
  /\ readFaults = MaxReadFaults
  /\ framesAt = SetBrightness

BenchNext ==
  \/ ApiBenchmark
  \/ BenchRead
  \/ BenchReturn

BenchSpec == BenchInit /\ [][BenchNext]_vars

(* ---------------- the brightness scaling alone ---------------- *)
\* one channel of one pixel is scaled as bmpProcess() scales it: b of line 934,
\* b16 of line 972, the pixel[] byte of lines 1010-1018
ApplyScale ==
  /\ pc = "idle"
  /\ lastCall.fn = "none"
  /\ \E B \in 0..255, v \in 0..255 :
       LET b == U8(1 + B)
       IN lastCall' = [fn |-> "scale", B |-> B, v |-> v, b |-> b,
                       pixel |-> Scale(v, U16(b))]
  /\ UNCHANGED <<pc, after, dir, raw, layout, fileIndex, nFrames, frame,
                 selected, menuState, maxLPS, firstBlock, nBlocks, sdBuf, leds,
                 SetBrightness, Speed, Delay, eeprom, btn, buttonActive,
                 longPress, scanPos, scanKind, ubI, ubOut, ci, block, stopFlag,
                 linesPerSec, shown, passes, ackSeen, armed, profiled, adj, oob,
                 scans, lastScan, prevScan, diag, freeBlocks, tables,
                 readFaults, framesAt>>

\* the next pixel
ScaleAgain ==
  /\ pc = "idle"
  /\ lastCall.fn = "scale"
  /\ lastCall' = NoCall
  /\ UNCHANGED <<pc, after, dir, raw, layout, fileIndex, nFrames, frame,
                 selected, menuState, maxLPS, firstBlock, nBlocks, sdBuf, leds,
                 SetBrightness, Speed, Delay, eeprom, btn, buttonActive,
                 longPress, scanPos, scanKind, ubI, ubOut, ci, block, stopFlag,
                 linesPerSec, shown, passes, ackSeen, armed, profiled, adj, oob,
                 scans, lastScan, prevScan, diag, freeBlocks, tables,
                 readFaults, framesAt>>

ScaleInit ==
  /\ InitCommon
  /\ pc = "idle"
  /\ after = "api"
  /\ dir = DirOf("bmp", 0, 1, 1)
  /\ raw = [s \in 0..1 |-> NoRaw]
  /\ layout = "apart"
  /\ eeprom = BlankEeprom
  /\ freeBlocks = WholeCard
  /\ tables = "square"
  /\ readFaults = MaxReadFaults
  /\ framesAt = SetBrightness

ScaleNext ==
  \/ ApplyScale
  \/ ScaleAgain

ScaleSpec == ScaleInit /\ [][ScaleNext]_vars

(* ---------------- getInput() alone ---------------- *)
\* the menu positions loop() calls getInput() in
MenuPositions ==
  {<<ms, sel>> \in (0..8) \X (0..6) :
     \/ ms \in {0, 8} /\ sel \in {0, 1}
     \/ ms \in 1..4 /\ sel \in {ms + 1, ms + 2}
     \/ ms \in 5..7 /\ sel = ms - 2}

\* line 213: inputOption = getInput()
ApiGetInput ==
  /\ pc = "idle"
  /\ pc' = "in_wait"
  /\ lastCall' = [fn |-> "getInput", assigned |-> FALSE, ret |-> 0]
  /\ UNCHANGED <<after, dir, raw, layout, fileIndex, nFrames, frame, selected,
                 menuState, maxLPS, firstBlock, nBlocks, sdBuf, leds,
                 SetBrightness, Speed, Delay, eeprom, btn, buttonActive,
                 longPress, scanPos, scanKind, ubI, ubOut, ci, block, stopFlag,
                 linesPerSec, shown, passes, ackSeen, armed, profiled, adj, oob,
                 scans, lastScan, prevScan, diag, freeBlocks, tables,
                 readFaults, framesAt>>

\* line 760: the wait loop ends when a button reads LOW
InputPressed ==
  /\ pc = "in_wait"
  /\ btn # {}
  /\ pc' = "in_read"
  /\ UNCHANGED <<after, dir, raw, layout, fileIndex, nFrames, frame, selected,
                 menuState, maxLPS, firstBlock, nBlocks, sdBuf, leds,
                 SetBrightness, Speed, Delay, eeprom, btn, buttonActive,
                 longPress, scanPos, scanKind, ubI, ubOut, ci, block, stopFlag,
                 linesPerSec, shown, passes, ackSeen, armed, profiled, adj, oob,
                 scans, lastScan, prevScan, lastCall, diag, freeBlocks, tables,
                 readFaults, framesAt>>

\* lines 761-804: the three reads, the long-press handling and the return
InputRead ==
  /\ pc = "in_read"
  /\ \E a0 \in ReadCodes(btn), held \in Sampled(menuState), elapsed \in Sampled(menuState) :
       LET in == getInput(menuState, selected, a0, held, elapsed, buttonActive, longPress)
       IN /\ lastCall' = [lastCall EXCEPT !.assigned = (btn # {}), !.ret = in.a]
          /\ buttonActive' = in.buttonActive
          /\ longPress' = in.longPress
  /\ pc' = "in_done"
  /\ UNCHANGED <<after, dir, raw, layout, fileIndex, nFrames, frame, selected,
                 menuState, maxLPS, firstBlock, nBlocks, sdBuf, leds,
                 SetBrightness, Speed, Delay, eeprom, btn, scanPos, scanKind,
                 ubI, ubOut, ci, block, stopFlag, linesPerSec, shown, passes,
                 ackSeen, armed, profiled, adj, oob, scans, lastScan, prevScan,
                 diag, freeBlocks, tables, readFaults, framesAt>>

\* the value is handed to the switch of line 216
InputReturn ==
  /\ pc = "in_done"
  /\ pc' = "idle"
  /\ lastCall' = NoCall
  /\ UNCHANGED <<after, dir, raw, layout, fileIndex, nFrames, frame, selected,
                 menuState, maxLPS, firstBlock, nBlocks, sdBuf, leds,
                 SetBrightness, Speed, Delay, eeprom, btn, buttonActive,
                 longPress, scanPos, scanKind, ubI, ubOut, ci, block, stopFlag,
                 linesPerSec, shown, passes, ackSeen, armed, profiled, adj, oob,
                 scans, lastScan, prevScan, diag, freeBlocks, tables,
                 readFaults, framesAt>>

\* a button is pressed or released while getInput() runs
InputButtons ==
  /\ pc \in {"in_wait", "in_read"}
  /\ \E b \in SUBSET Buttons : b # btn /\ btn' = b
  /\ UNCHANGED <<pc, after, dir, raw, layout, fileIndex, nFrames, frame,
                 selected, menuState, maxLPS, firstBlock, nBlocks, sdBuf, leds,
                 SetBrightness, Speed, Delay, eeprom, buttonActive, longPress,
                 scanPos, scanKind, ubI, ubOut, ci, block, stopFlag,
                 linesPerSec, shown, passes, ackSeen, armed, profiled, adj, oob,
                 scans, lastScan, prevScan, lastCall, diag, freeBlocks, tables,
                 readFaults, framesAt>>

InputInit ==
  /\ fileIndex = ZeroTable
  /\ nFrames = 0 /\ frame = 0
  /\ \E at \in MenuPositions : menuState = at[1] /\ selected = at[2]
  /\ maxLPS = 0 /\ firstBlock = 0 /\ nBlocks = 0
  /\ sdBuf = WholeBlock(Off)
  /\ leds = Off
  /\ SetBrightness = 125 /\ Speed = 125 /\ Delay = 0
  /\ btn = {}
  /\ buttonActive \in BOOLEAN /\ longPress \in BOOLEAN
  /\ scanPos = 1 /\ scanKind = "none" /\ ubI = 0 /\ ubOut = 0
  /\ ci = 0 /\ block = 0 /\ stopFlag = FALSE /\ linesPerSec = 0
  /\ shown = <<>> /\ passes = 0 /\ ackSeen = FALSE /\ adj = 0
  /\ armed = FALSE /\ profiled = <<>>
  /\ oob = FALSE /\ scans = 0
  /\ lastScan = NoScan /\ prevScan = NoScan
  /\ lastCall = NoCall
  /\ diag = <<>>
  /\ pc = "idle"
  /\ after = "api"
  /\ dir = DirOf("bmp", 0, 1, 1)
  /\ raw = [s \in 0..1 |-> NoRaw]
  /\ layout = "apart"
  /\ eeprom = BlankEeprom
  /\ freeBlocks = WholeCard
  /\ tables = "square"
  /\ readFaults = MaxReadFaults
  /\ framesAt = SetBrightness

InputNext ==
  \/ ApiGetInput
  \/ InputPressed
  \/ InputRead
  \/ InputReturn
  \/ InputButtons

InputSpec == InputInit /\ [][InputNext]_vars

(* ---------------- the settings store alone ---------------- *)
\* the positions of the EEPROM the sketch has written since it was blank
StoreCall(written) == [fn |-> "eeprom", written |-> written]
Written(c) == IF c.fn = "eeprom" THEN c.written ELSE {}

\* line 330: saveConfig() from the last menu item
ApiSaveConfig ==
  /\ pc = "idle"
  /\ eeprom' = saveConfig(eeprom, SetBrightness, Speed, Delay)
  /\ lastCall' = StoreCall(Written(lastCall) \cup {0, 1, 2, 3})
  /\ UNCHANGED <<pc, after, dir, raw, layout, fileIndex, nFrames, frame,
                 selected, menuState, maxLPS, firstBlock, nBlocks, sdBuf, leds,
                 SetBrightness, Speed, Delay, btn, buttonActive, longPress, scanPos, scanKind, ubI, ubOut,
                 ci, block, stopFlag, linesPerSec, shown, passes, ackSeen,
                 armed, profiled, adj, oob, scans, lastScan, prevScan, diag,
                 freeBlocks, tables, readFaults, framesAt>>

\* line 360: saveBrightness() after the rescan of the brightness screen
ApiSaveBrightness ==
  /\ pc = "idle"
  /\ eeprom' = saveBrightness(eeprom, SetBrightness)
  /\ lastCall' = StoreCall(Written(lastCall) \cup {0, 1})
  /\ UNCHANGED <<pc, after, dir, raw, layout, fileIndex, nFrames, frame,
                 selected, menuState, maxLPS, firstBlock, nBlocks, sdBuf, leds,
                 SetBrightness, Speed, Delay, btn, buttonActive, longPress, scanPos, scanKind, ubI, ubOut,
                 ci, block, stopFlag, linesPerSec, shown, passes, ackSeen,
                 armed, profiled, adj, oob, scans, lastScan, prevScan, diag,
                 freeBlocks, tables, readFaults, framesAt>>

\* lines 105-107 and 130: a power-on; the defaults, then loadConfig()
ApiLoadConfig ==
  /\ pc = "idle"
  /\ LET cfg == loadConfig(eeprom, <<125, 125, 0>>)
     IN /\ SetBrightness' = cfg[1]
        /\ Speed' = cfg[2]
        /\ Delay' = cfg[3]
  /\ UNCHANGED <<pc, after, dir, raw, layout, fileIndex, nFrames, frame,
                 selected, menuState, maxLPS, firstBlock, nBlocks, sdBuf, leds,
                 eeprom, btn, buttonActive, longPress, scanPos, scanKind, ubI, ubOut,
                 ci, block, stopFlag, linesPerSec, shown, passes, ackSeen,
                 armed, profiled, adj, oob, scans, lastScan, prevScan, diag,
                 freeBlocks, tables, readFaults, framesAt>>
  /\ UNCHANGED lastCall

\* lines 342-346, 366-370, 377-381: the user moves the settings
ApiAdjust ==
  /\ pc = "idle"
  /\ \E B \in Settings, S \in Settings, D \in Settings :
       /\ <<B, S, D>> # <<SetBrightness, Speed, Delay>>
       /\ SetBrightness' = B
       /\ Speed' = S
       /\ Delay' = D
  /\ UNCHANGED <<pc, after, dir, raw, layout, fileIndex, nFrames, frame,
                 selected, menuState, maxLPS, firstBlock, nBlocks, sdBuf, leds,
                 eeprom, btn, buttonActive, longPress, scanPos, scanKind, ubI, ubOut,
                 ci, block, stopFlag, linesPerSec, shown, passes, ackSeen,
                 armed, profiled, adj, oob, scans, lastScan, prevScan, diag,
                 freeBlocks, tables, readFaults, framesAt>>
  /\ UNCHANGED lastCall

StoreInit ==
  /\ InitCommon
  /\ pc = "idle"
  /\ after = "api"
  /\ dir = DirOf("bmp", 0, 1, 1)
  /\ raw = [s \in 0..1 |-> NoRaw]
  /\ layout = "apart"
  /\ eeprom = BlankEeprom
  /\ freeBlocks = WholeCard
  /\ tables = "square"
  /\ readFaults = MaxReadFaults
  /\ framesAt = SetBrightness

StoreNext ==
  \/ ApiSaveConfig
  \/ ApiSaveBrightness
  \/ ApiLoadConfig
  \/ ApiAdjust

StoreSpec == StoreInit /\ [][StoreNext]_vars

(* ---------------- the start delay of trigger() alone ---------------- *)
\* the largest value of a 16-bit int
IntMax == 32767

\* line 853: Delay * 1000, a uint8_t promoted to the 16-bit int times an int
\* constant, then converted to the unsigned long of delay(). A product above
\* IntMax overflows a signed int: the 16-bit multiplication leaves the wrapped
\* value (negative ones standing for the unsigned long 2^32 + value), a
\* widening multiplication the true product
DelayArgs(d) ==
  IF d * 1000 <= IntMax THEN {d * 1000} ELSE {I16(d * 1000), d * 1000}

\* lines 377-381: one input in the delay screen
ApiDelayScreen ==
  /\ pc = "idle"
  /\ \E a \in {1, 2, 4, 5} :
       /\ Delay' = Adjust(a, Delay)
       /\ Delay' # Delay
  /\ UNCHANGED <<pc, after, dir, raw, layout, fileIndex, nFrames, frame, selected,
                 menuState, maxLPS, firstBlock, nBlocks, sdBuf, leds,
                 SetBrightness, Speed, eeprom, btn, buttonActive, longPress,
                 scanPos, scanKind, ubI, ubOut, ci, block, stopFlag,
                 linesPerSec, shown, passes, ackSeen, armed, profiled, adj, oob,
                 scans, lastScan, prevScan, diag, freeBlocks, tables,
                 readFaults, framesAt, lastCall>>

\* lines 851-854: trigger() waits before the playback
ApiStartDelay ==
  /\ pc = "idle"
  /\ pc' = "delay"
  /\ \E ms \in DelayArgs(Delay) :
       lastCall' = [fn |-> "delay", Delay |-> Delay, ms |-> ms]
  /\ UNCHANGED <<after, dir, raw, layout, fileIndex, nFrames, frame, selected,
                 menuState, maxLPS, firstBlock, nBlocks, sdBuf, leds,
                 SetBrightness, Speed, Delay, eeprom, btn, buttonActive, longPress,
                 scanPos, scanKind, ubI, ubOut, ci, block, stopFlag,
                 linesPerSec, shown, passes, ackSeen, armed, profiled, adj, oob,
                 scans, lastScan, prevScan, diag, freeBlocks, tables,
                 readFaults, framesAt>>

\* delay() returns
DelayReturn ==
  /\ pc = "delay"
  /\ pc' = "idle"
  /\ lastCall' = NoCall
  /\ UNCHANGED <<after, dir, raw, layout, fileIndex, nFrames, frame, selected,
                 menuState, maxLPS, firstBlock, nBlocks, sdBuf, leds,
                 SetBrightness, Speed, Delay, eeprom, btn, buttonActive, longPress,
                 scanPos, scanKind, ubI, ubOut, ci, block, stopFlag,
                 linesPerSec, shown, passes, ackSeen, armed, profiled, adj, oob,
                 scans, lastScan, prevScan, diag, freeBlocks, tables,
                 readFaults, framesAt>>

DelayInit ==
  /\ InitCommon
  /\ pc = "idle"
  /\ after = "api"
  /\ dir = DirOf("bmp", 0, 1, 1)
  /\ raw = [s \in 0..1 |-> NoRaw]
  /\ layout = "apart"
  /\ eeprom = BlankEeprom
  /\ freeBlocks = WholeCard
  /\ tables = "square"
  /\ readFaults = MaxReadFaults
  /\ framesAt = SetBrightness

DelayNext ==
  \/ ApiDelayScreen
  \/ ApiStartDelay
  \/ DelayReturn

DelaySpec == DelayInit /\ [][DelayNext]_vars

(* ---------------- properties: playback ---------------- *)
\* the raw file of the frame selected in the chooser
SelectedRaw == getFileName(dir, fileIndex, frame)

AckPcs == {"ack_press", "ack_release"}

\* transmissions of the current playback that are not the final one after the stop
FrameTicks == IF pc \in AckPcs THEN Len(shown) - 1 ELSE Len(shown)

\* C1: every playback started from the start screen, a repeated one included, is
\* preceded by a preload() since the previous playback ended, so that at the
\* first tick sdBuf holds row 0 of the selected frame.
C1_PlaybackStartsPreloaded ==
  (pc = "play" /\ shown = <<>>) =>
    /\ armed
    /\ sdBuf.led = Row(SelectedRaw, 0)

\* C2: each tick transmits once, and the rows transmitted by a playback are rows
\* 0, 1, ..., nBlocks-1 of the selected frame in that order, starting again at
\* row 0 only when the trigger is held at end-of-frame.
C2_RowsInOrder ==
  pc \in ({"play"} \cup AckPcs) =>
    /\ \A i \in 1..FrameTicks : shown[i] = Row(SelectedRaw, (i - 1) % nBlocks)
    /\ FrameTicks <= passes * nBlocks

\* the states C3 speaks of: the buffer is cleared once the stop is scheduled, and
\* the last transmission of a playback that left the loop is all-off
C3_State ==
  /\ (pc = "play" /\ stopFlag) => sdBuf.led = Off
  /\ pc \in AckPcs =>
        /\ shown # <<>>
        /\ shown[Len(shown)] = Off
        /\ leds = Off

\* the steps C3 speaks of: end-of-frame with the trigger released clears the buffer
\* and transmits nothing more than the one row due at that tick; the next
\* transmission is the only further one and leaves the loop
C3_Step ==
  /\ (pc = "play" /\ ~stopFlag /\ stopFlag') =>
        /\ block + 1 >= nBlocks /\ "trig" \notin btn
        /\ sdBuf'.led = Off
        /\ pc' = "play"
  /\ (pc = "play" /\ stopFlag /\ shown' # shown) =>
        /\ Len(shown') = Len(shown) + 1
        /\ shown'[Len(shown')] = Off
        /\ leds' = Off
        /\ pc' = "ack_press"
  /\ (pc = "play" /\ pc' # "play") => stopFlag

C4_WholePassesOfRows ==
  pc \in AckPcs =>
    LET rows == Cardinality({i \in 1..FrameTicks : shown[i].kind = "row"})
    IN rows > 0 /\ rows % nBlocks = 0

\* the steps C5 speaks of: the loop is left for the wait of line 888, which ends
\* only on a pressed button; the menu is reached only from the wait of line 889,
\* with a press seen and every button released
C5_Step ==
  /\ (pc = "play" /\ pc' # "play") => pc' = "ack_press"
  /\ (pc = "ack_press" /\ pc' # "ack_press") => (pc' = "ack_release" /\ btn # {})
  /\ (pc = "ack_release" /\ pc' # "ack_release") =>
        (pc' = "menu" /\ ackSeen /\ btn = {})

RECURSIVE MinOf(_)
MinOf(seq) ==
  IF Len(seq) = 1 THEN seq[1]
  ELSE LET m == MinOf(Tail(seq)) IN IF seq[1] < m THEN seq[1] ELSE m

\* C6: after checkSpeed() has run over the indexed frames and the clamp, maxLPS is
\* the minimum of the per-frame rates, clamped to 400.
C6_MaxLpsIsMinimum ==
  (pc = "preload" /\ profiled # <<>>) =>
    LET m == MinOf(profiled)
    IN maxLPS = IF m > RefreshCeiling THEN RefreshCeiling ELSE m

EligibleEntries(d) == SelectSeq(d, Eligible)

\* C8: shortScan() run twice in a row over an unchanged directory leaves nFrames
\* and fileIndex[0..nFrames-1] as they were after the first run.
C8_ShortScanIdempotent ==
  (pc = "idle" /\ lastScan.kind = "short" /\ prevScan.kind = "short") =>
    /\ lastScan.n = prevScan.n
    /\ \A k \in 0..(TableSize - 1) :
         k < prevScan.n => lastScan.fi[k] = prevScan.fi[k]

\* C9: a scan never counts more than 30 frames and never writes fileIndex at a
\* position >= 30; meeting more eligible entries ends in a reported error.
C9_CapacityRespected ==
  scans <= 1 =>
    /\ nFrames <= TableSize
    /\ ~oob
    /\ Len(EligibleEntries(dir)) > TableSize => pc # "idle" \/ scans = 0

\* C10: after a scan, fileIndex[k] is the directory position of the k-th eligible
\* entry for every k < nFrames; a position above 255 is not stored truncated.
C10_IndexIsDirectoryPosition ==
  (pc = "idle" /\ scans = 1 /\ ~oob) =>
    \A k \in 0..(TableSize - 1) :
      (k < nFrames /\ k < Len(EligibleEntries(dir))) =>
        fileIndex[k] = EligibleEntries(dir)[k + 1].dirIndex

\* C11: in a full scan of the default build bmpProcess gets each eligible entry's
\* own name as input and the Frame name derived from it as output, so that after
\* the scan every indexed source image has exactly one Frame keyed to it by name.
C11_EveryIndexedSourceHasItsFrame ==
  (pc = "idle" /\ lastScan.kind = "complete" /\ scans = 1 /\ ~oob) =>
    /\ \A k \in 0..(TableSize - 1) :
         k < nFrames =>
           LET s == getFileName(dir, fileIndex, k)
           IN s # 0 /\ raw[s] = OkRaw(dir[s].rows)
    /\ raw[0] = NoRaw

\* the entries the scans are to index: no directory, not hidden, named *.bmp
SourceEntries(d) ==
  LET IsSource(e) == ~e.sub /\ ~e.hidden /\ EndsBmp(e.name)
  IN SelectSeq(d, IsSource)

\* C12: an entry is indexed by a scan if and only if it is no directory, is not
\* hidden and its name ends with .bmp; a name that holds the letters bmp
\* elsewhere is not indexed.
C12_IndexedIffSourceSuffix ==
  (pc = "idle" /\ scans = 1 /\ ~oob) =>
    /\ nFrames = Len(SourceEntries(dir))
    /\ \A k \in 0..(TableSize - 1) :
         k < nFrames => fileIndex[k] = U8(SourceEntries(dir)[k + 1].dirIndex)

(* ---------------- properties: name resolution ---------------- *)
\* C13: for an indexed source name ending in .bmp, getFileName(.., 1) gives the
\* name with only its final suffix replaced by raw and getFileName(.., 2) the
\* name with only the final .bmp removed, so that two distinct source names never
\* give the same Frame name.
C13_SuffixSubstitution ==
  (lastCall.fn = "getFileName" /\ lastCall.src # 0
     /\ EndsBmp(dir[lastCall.src].name)) =>
    LET n == dir[lastCall.src].name
        Sources == {t \in 1..Len(dir) : Eligible(dir[t]) /\ EndsBmp(dir[t].name)}
    IN /\ lastCall.ext = 1 =>
            lastCall.out = SubSeq(n, 1, Len(n) - 3) \o <<"r", "a", "w">>
       /\ lastCall.ext = 2 => lastCall.out = SubSeq(n, 1, Len(n) - 4)
       /\ \A t \in Sources, u \in Sources :
            dir[t].name # dir[u].name
              => RawNameOf(dir[t].name) # RawNameOf(dir[u].name)

\* the header a conversion may accept: all 34 bytes present, the BMP signature,
\* 1 plane, 24 bits per pixel, no compression
HeaderValid(file) ==
  /\ file.len >= HeaderBytes
  /\ file.sig = Signature
  /\ file.planes = 1
  /\ file.bpp = 24
  /\ file.comp = 0

FormatDiag == <<":( BMP format", " not recognized.">>

\* C14: when the header of the source is not that of a 24-bit uncompressed
\* 1-plane bitmap, or the file is shorter than the header, bmpProcess ends in
\* the fatal format error, and no Frame was removed or created and no block
\* was written.
C14_InvalidHeaderWritesNothing ==
  (lastCall.fn = "bmpProcess" /\ ~HeaderValid(lastCall.file))
    => /\ pc = "error"
       /\ diag = FormatDiag
       /\ ~lastCall.removed
       /\ ~lastCall.created
       /\ lastCall.written = 0
       /\ (raw[1].state # "none") = lastCall.had

\* a conversion of a whole, valid bitmap on a card with room for its rows
Absolute(h) == IF h < 0 THEN -h ELSE h
ValidCall ==
  /\ lastCall.fn = "bmpProcess"
  /\ HeaderValid(lastCall.file)
  /\ lastCall.file.data
  /\ Absolute(lastCall.file.height) <= freeBlocks

\* C15: a valid bitmap, stored bottom-up (positive height) or top-down (negative
\* height), is converted without a creation error, and the Frame allocated and
\* written has exactly |height| rows of one block each.
C15_FrameHasHeightRows ==
  ValidCall
    => /\ diag # <<":( error", "creating file">>
       /\ lastCall.created => /\ lastCall.allocated = Absolute(lastCall.file.height)
                              /\ raw[1] = OkRaw(Absolute(lastCall.file.height))
                              /\ nBlocks = Absolute(lastCall.file.height)
       /\ lastCall.done => lastCall.written = Absolute(lastCall.file.height)

\* C16: a source at least as wide as the strip is converted over exactly N_LEDS
\* columns, and the columns dropped on the left, floor((width - N_LEDS) / 2),
\* and on the right differ by at most 1.
C16_CropIsCentred ==
  (ValidCall /\ lastCall.file.width >= N_LEDS /\ lastCall.created)
    => LET left == lastCall.bmpStartCol
           right == lastCall.file.width - N_LEDS - left
       IN /\ lastCall.columns = N_LEDS
          /\ left = (lastCall.file.width - N_LEDS) \div 2
          /\ right - left \in {0, 1}

\* C17: the brightness of a full scan is limited by the current budget: the
\* estimated peak current of every Frame a conversion has generated, from the
\* largest sum of its rows, does not exceed CURRENT_MAX.
C17_FrameWithinBudget ==
  (ValidCall /\ lastCall.done) => Estimate(lastCall.frameMax) <= CURRENT_MAX

(* ---------------- properties: fatal errors ---------------- *)
\* the states C19 speaks of: in error() the strip is dark and both parts of a
\* diagnostic are on the display
C19_State ==
  pc = "error" => /\ leds = Off
                  /\ Len(diag) = 2
                  /\ diag[1] # "" /\ diag[2] # ""

\* the steps C19 speaks of: once in error() nothing the program drives changes,
\* whatever the buttons do
C19_Step ==
  pc = "error" =>
    /\ pc' = "error"
    /\ UNCHANGED <<leds, shown, diag, raw, sdBuf, eeprom, menuState, selected,
                   frame, passes, block, firstBlock, nBlocks, maxLPS>>

\* C19: at every call of error() the LEDs are off and stay off, the two-part
\* diagnostic is shown, and nothing continues: no LED transmission, storage
\* write, menu transition or playback happens afterwards.
C19_FatalErrorHalts == []C19_State /\ [][C19_Step]_vars

\* error() was entered after a playback had lit the strip and had been
\* acknowledged, and a button is held while the program hangs
C19_Witness ==
  /\ pc = "error"
  /\ ackSeen
  /\ Len(diag) = 2
  /\ btn # {}

\* C20: every failure of a block read is fatal: once a read of preload(), of
\* the playback loop or of benchmark() has failed the program is in error(),
\* and what the failed read left in the buffer is never sent to the strip.
C20_ReadFailureIsFatal ==
  /\ readFaults > 0 => pc = "error"
  /\ leds # Failed
  /\ \A i \in 1..Len(shown) : shown[i] # Failed

(* ---------------- properties: frames on the card ---------------- *)
\* the positions of the menu loop and of a playback
MenuPcs == {"menu", "play", "ack_press", "ack_release", "wait_press", "wait_release"}

\* every indexed frame has a raw file that opens and is contiguous
AllFramesUsable ==
  \A i \in 0..(nFrames - 1) : raw[getFileName(dir, fileIndex, i)].state = "ok"

\* the states C21 speaks of
C21_State ==
  pc \in MenuPcs => /\ AllFramesUsable
                    /\ raw[getFileName(dir, fileIndex, frame)].state = "ok"

\* the steps C21 speaks of: checkSpeed() met with an unusable frame ends in
\* error(), and so does preload() for the selected frame
C21_Step ==
  /\ (pc = "checkSpeed" /\ ci < nFrames
      /\ raw[getFileName(dir, fileIndex, ci)].state # "ok") => pc' = "error"
  /\ (pc = "checkSpeed" /\ pc' = "preload") => AllFramesUsable
  /\ (pc = "preload"
      /\ raw[getFileName(dir, fileIndex, frame)].state # "ok") => pc' = "error"

\* C21: the menu and playback are reached after a scan only if every indexed
\* frame has a raw file that opens and is contiguous; a missing or fragmented
\* frame ends checkSpeed(), or preload() for the selected frame, in error().
C21_UnusableFrameIsFatal == []C21_State /\ [][C21_Step]_vars

\* checkSpeed() found the fragmented raw file of the second of two frames
C21_Witness ==
  /\ pc = "error"
  /\ diag = <<"raw file error", "re-scan needed!">>
  /\ ci = 1
  /\ nFrames = 2


(* ---------------- properties: frame selection ---------------- *)
\* C22: the selected frame is a valid index whenever it is used: when preload()
\* is about to run and during a playback, frame < nFrames, also on a card with
\* no eligible file.
C22_FrameIsValidIndex ==
  pc \in {"preload", "play"} => frame < nFrames


(* ---------------- properties: saved settings ---------------- *)
\* the brightness the next power-on takes from the EEPROM
StoredBrightness == loadConfig(eeprom, <<125, 125, 0>>)[1]

\* C23: saved files and saved settings stay in sync: in every state, where the
\* device may be powered off or is halted by error(), the brightness the EEPROM
\* holds is the brightness setting the frames on the card were generated at.
C23_SavedInSync == framesAt = StoredBrightness


(* ---------------- properties: the LED transmitter ---------------- *)
\* the states C24 speaks of: a bit follows each rising edge, and a finished
\* call has sent N_LEDS * 24 bits
C24_State ==
  lastCall.fn = "show" =>
    /\ lastCall.edges - lastCall.emitted \in {0, 1}
    /\ lastCall.ip = 20 => lastCall.emitted = N_LEDS * 24

\* the steps C24 speaks of: the n-th bit put on the line is bit 7 - n mod 8 of
\* sdBuf[n div 8], a byte of the LED part, and sdBuf is not written
C24_Step ==
  pc = "show" =>
    /\ sdBuf' = sdBuf
    /\ lastCall.ip = 4 =>
         LET n == lastCall.emitted
         IN /\ n \div 8 < N_LEDS * 3
            /\ lastCall'.emitted = n + 1
            /\ lastCall'.pin = BitOf(ByteAt(sdBuf, n \div 8), 7 - (n % 8))

\* C24: one call of show() emits exactly the bits of sdBuf[0 .. N_LEDS*3-1],
\* bytes in buffer order and each byte most significant bit first, N_LEDS * 24
\* bits in all, and leaves sdBuf as it was.
C24_ShowEmitsBuffer == []C24_State /\ [][C24_Step]_vars

\* show() returned after sending a buffer of mixed bytes
C24_Witness ==
  /\ pc = "idle"
  /\ lastCall.fn = "show"
  /\ lastCall.emitted = N_LEDS * 24
  /\ sdBuf.led = Bytes(85, 170)
  /\ leds = Bytes(85, 170)

\* C25: show() runs with interrupts off from its first edge to its last, and
\* its cycle count does not depend on the buffer: every bit takes 20 cycles,
\* whatever its value, and the whole block N_LEDS * 24 * 20 - 1.
C25_ShowIsConstantTime ==
  pc = "show" =>
    /\ ~lastCall.ie
    /\ lastCall.ip = 0 => lastCall.cycles = 20 * lastCall.emitted
    /\ lastCall.ip = 20 => lastCall.cycles = 20 * N_LEDS * 24 - 1

\* the asm block has run to its end over a buffer of ones and over one of zeros
C25_Witness ==
  /\ pc = "show"
  /\ lastCall.ip = 20
  /\ sdBuf.led \in {Off, Bytes(0, 255)}
  /\ lastCall.cycles = 69119

(* ---------------- properties: the playback loop in time ---------------- *)
Complete(led) == led.kind \in {"row", "off"}

\* where trigger()'s loop is, "none" outside it
Phase(c) == IF c.fn = "trigger" THEN c.phase ELSE "none"

C26_State ==
  (pc = "play" /\ Phase(lastCall) = "show") =>
    /\ leds = show(sdBuf)
    /\ Complete(leds)
    /\ leds = (IF stopFlag THEN Off ELSE Row(1, block))

C26_Step ==
  /\ (Phase(lastCall') = "load" /\ Phase(lastCall) # "load") =>
       (Phase(lastCall) = "show" /\ lastCall.busy = 0)
  /\ (Phase(lastCall') = "show" /\ Phase(lastCall) # "show") =>
       (Phase(lastCall) = "wait" /\ Complete(sdBuf.led))
  /\ (Phase(lastCall) = "show" /\ lastCall.busy > 0) => sdBuf' = sdBuf
  /\ (pc = "play" /\ leds' # leds) => Complete(leds')

\* C26: whatever a block read takes, longer than the tick period included, the
\* read of the next row starts only after the transmission of the current row
\* has finished and no transmission starts while a read is filling sdBuf, so
\* each buffer transmitted is one whole row of the frame, in order, or the
\* all-off row; a slow read only delays the next transmission
C26_SingleBufferOrdering == []C26_State /\ [][C26_Step]_vars

\* a read outlasted the period: back at the top of the loop the overflow flag
\* is already set and the timer has counted on since
C26_Witness ==
  /\ pc = "play"
  /\ Phase(lastCall) = "wait"
  /\ lastCall.tov
  /\ lastCall.timer > 0
  /\ sdBuf.led = Row(1, 1)
  /\ leds = Row(1, 0)

\* the end-of-frame check of line 871 is the next thing the program does
AtFrameEnd ==
  /\ pc = "play"
  /\ Phase(lastCall) = "show"
  /\ lastCall.busy = 0
  /\ ~stopFlag
  /\ block + 1 >= nBlocks

C27_Step ==
  /\ (AtFrameEnd /\ lastCall' # lastCall /\ "trig" \notin btn) =>
       (stopFlag' /\ pc' = "play" /\ sdBuf'.led = Off)
  /\ (AtFrameEnd /\ lastCall' # lastCall /\ "trig" \in btn) =>
       (~stopFlag' /\ pc' = "play" /\ block' = 0 /\ Phase(lastCall') = "load")
  /\ (~stopFlag /\ stopFlag') => (AtFrameEnd /\ "trig" \notin btn)
  /\ (pc = "play" /\ pc' # "play") => (stopFlag /\ pc' = "ack_press" /\ leds = Off)

\* the first and the last row of the frame are on their way to the strip
SendingFirst == pc = "play" /\ Phase(lastCall) = "show" /\ leds = Row(1, 0)
SendingLast == pc = "play" /\ Phase(lastCall) = "show" /\ leds = Row(1, nBlocks - 1)

\* C27: with the timer overflowing on, a playback whose end-of-frame check
\* finds the trigger released is left after one more, all-off, transmission;
\* one whose checks all find the trigger held is never left and sends the
\* frame's rows again and again
C27_PlaybackTermination ==
  /\ [][C27_Step]_vars
  /\ (pc = "play" /\ stopFlag) ~> (pc = "ack_press")
  /\ ([]~stopFlag) =>
       ((pc = "play") ~> SendingFirst) /\ ((pc = "play") ~> SendingLast)

\* the loop was left after a release at the end of the frame
C27_Witness ==
  /\ pc = "ack_press"
  /\ Phase(lastCall) = "done"
  /\ stopFlag
  /\ block = nBlocks
  /\ nBlocks > 1
  /\ leds = Off

(* ---------------- properties: the playback rate ---------------- *)
\* C28: in a playback the rate mapped from the Speed dial lies between the
\* floor of 10 and the ceiling maxLPS, itself at most 400, so the divisor of the
\* Timer1 period is not zero
C28_RateWithinBounds ==
  pc = "play" =>
    (10 <= linesPerSec /\ linesPerSec <= maxLPS /\ maxLPS <= RefreshCeiling)

\* C29: once checkSpeed() and the clamp have run after a rescan, maxLPS is the
\* clamped rate measured for one of the frames now indexed: what maxLPS was
\* before the rescan has no part in it
C29_CeilingRecomputed ==
  (pc = "preload" /\ scans >= 1 /\ profiled # <<>>) =>
    \E i \in 1..Len(profiled) : maxLPS = clampLPS(profiled[i])

(* ---------------- properties: benchmark() ---------------- *)
\* the largest of a sequence of latencies, 0 for none
WorstOf(l) ==
  IF l = <<>> THEN 0
  ELSE LET v == {l[i] : i \in 1..Len(l)} IN CHOOSE m \in v : \A x \in v : x <= m

\* C30: benchmark(firstBlock, nBlocks), nBlocks >= 0, reads only blocks of the
\* frame, firstBlock .. firstBlock + nBlocks - 1, never more than nBlocks of
\* them, and when it returns it has read exactly nBlocks blocks and hands back
\* the largest latency observed
C30_BenchmarkReadsTheFrame ==
  (pc = "bench" /\ lastCall.fn = "benchmark") =>
    /\ Len(lastCall.reads) <= lastCall.count
    /\ \A i \in 1..Len(lastCall.reads) :
         /\ lastCall.first <= lastCall.reads[i]
         /\ lastCall.reads[i] < lastCall.first + lastCall.count
    /\ lastCall.done => /\ Len(lastCall.reads) = lastCall.count
                        /\ lastCall.maxTime = WorstOf(lastCall.lats)

\* the same, for frames of at least one block
NonEmptyBenchmark ==
  (pc = "bench" /\ lastCall.fn = "benchmark" /\ lastCall.count = 0)
    \/ C30_BenchmarkReadsTheFrame

(* ---------------- properties: the brightness scaling ---------------- *)
\* C31: for every brightness and every channel value in 0..255 the scaled value
\* is floor(v * (1 + brightness) / 256), brightness 255, where the 8-bit b wraps
\* to 0, included
C31_ScaleIsFixedPoint ==
  lastCall.fn = "scale" =>
    lastCall.pixel = (lastCall.v * (1 + lastCall.B)) \div 256

\* full brightness: b has wrapped to 0 and the brightest channel comes out whole
C31_Witness ==
  /\ lastCall.fn = "scale"
  /\ lastCall.B = 255
  /\ lastCall.b = 0
  /\ lastCall.v = 255
  /\ lastCall.pixel = 255

(* ---------------- properties: the shared globals ---------------- *)
\* C32: in a playback firstBlock and nBlocks are the first block and the block
\* count of the raw file of the selected frame, fileIndex[frame], whatever
\* bmpProcess() and checkSpeed() left in them: a preload() has run since
C32_PlaybackUsesSelectedFrame ==
  pc = "play" =>
    LET s == getFileName(dir, fileIndex, frame)
    IN /\ s # 0
       /\ raw[s].state = "ok"
       /\ firstBlock = First(s)
       /\ nBlocks = raw[s].rows

\* a playback of the first of two frames after a rescan, whose checkSpeed()
\* ended on the second
C32_Witness ==
  /\ pc = "play"
  /\ nFrames = 2
  /\ frame = 0
  /\ scans >= 1
  /\ firstBlock = First(getFileName(dir, fileIndex, 0))
  /\ firstBlock # First(getFileName(dir, fileIndex, 1))

(* ---------------- properties: the menu ---------------- *)
\* the pairs of menu page and marked item that belong together
ConsistentPair(ms, sel) ==
  \/ ms \in {0, 8} /\ sel \in {0, 1}
  \/ ms \in 1..4 /\ sel \in {ms + 1, ms + 2}
  \/ ms \in 5..7 /\ sel = ms - 2

\* the screen a menu item stands for: 2 file chooser, 3 brightness, 4 speed,
\* 5 delay; 6 saves and returns to the initial screen
ScreenOf(k) ==
  CASE k = 2 -> 8 [] k = 3 -> 5 [] k = 4 -> 6 [] k = 5 -> 7 [] OTHER -> 0

C33_State ==
  /\ ConsistentPair(menuState, selected)
  /\ (pc = "menu" /\ menuState \in 1..4) =>
       /\ MenuNext(menuState, selected, 3)[1] = ScreenOf(selected)
       /\ (MenuCall(menuState, selected, 3) = "save") = (selected = 6)

C33_Step ==
  /\ (menuState \in 1..4 /\ menuState' \notin 1..4) =>
       menuState' = ScreenOf(selected)
  /\ (menuState' \in 5..7 /\ menuState' # menuState) =>
       (menuState \in 1..4 /\ selected' = selected)

\* C33: menuState and selected always form one of the consistent pairs, the
\* setting screens 5, 6 and 7 are entered only from the items 3, 4 and 5, and a
\* trigger press on a menu item opens the screen of that item whichever of the
\* two pages showing it is displayed
C33_MenuIsConsistent == []C33_State /\ [][C33_Step]_vars

\* the speed screen is open: its item is shown by the second and the third page
C33_Witness ==
  /\ pc = "menu"
  /\ menuState = 6
  /\ selected = 4
  /\ armed

(* ---------------- properties: getInput() ---------------- *)
\* C34: whenever buttons are pressed and released, getInput() returns a code it
\* assigned, one of 1..5, and the long-press codes 4 and 5 only in the
\* brightness, speed and delay screens
C34_InputIsDefined ==
  (pc = "in_done" /\ lastCall.fn = "getInput") =>
    /\ lastCall.assigned
    /\ lastCall.ret \in 1..5
    /\ lastCall.ret \in {4, 5} => menuState \in 5..7

\* the same, for a button still pressed at the reads of lines 761-763
HeldInputIsDefined ==
  (pc = "in_done" /\ lastCall.fn = "getInput" /\ ~lastCall.assigned)
    \/ C34_InputIsDefined

(* ---------------- properties: the settings store ---------------- *)
\* C35: from a blank EEPROM and after any saveConfig() and saveBrightness(),
\* a valid version tag in position 0 means that the positions 1..3, which
\* loadConfig() then loads, were all written by the sketch
C35_ValidTagMeansWritten ==
  eeprom[0] = VersionTag => {1, 2, 3} \subseteq Written(lastCall)

\* the same for the brightness alone
BrightnessWasWritten ==
  eeprom[0] = VersionTag => (1 \in Written(lastCall) /\ eeprom[1] \in Settings \cup {125})


(* ---------------- properties: the start delay ---------------- *)
\* C36: for every Delay the delay screen can set, 0..255, the millisecond count
\* trigger() hands to delay() is Delay times 1000
C36_DelayIsSeconds ==
  (pc = "delay" /\ lastCall.fn = "delay") => lastCall.ms = lastCall.Delay * 1000

\* the same, for the delays whose product fits a 16-bit int
ShortDelayIsSeconds ==
  (pc = "delay" /\ lastCall.fn = "delay" /\ lastCall.Delay <= IntMax \div 1000)
    => lastCall.ms = lastCall.Delay * 1000

=============================================================================
